---- MODULE Spec2Model ----
(***************************************************************************)
(* Mail rule engine of paperless-ngx (src/paperless_mail/mail.py): account *)
(* runs, per-rule and per-message handling, the chords of consume tasks    *)
(* queued per message, apply_mail_action, error_callback and the           *)
(* ProcessedMail ledger; and the tasks of src/documents/tasks.py:          *)
(* consume_file, index_optimize, index_reindex, bulk_update_documents and  *)
(* update_document_archive_file.                                           *)
(***************************************************************************)
EXTENDS Integers, Sequences, FiniteSets, Bags, TLC

(* ------------------------------ bounds --------------------------------- *)

\* number of chords queued over all runs
MaxBatches == 2

\* number of attachments of a message handed to _process_attachments
MaxAttachments == 2

\* number of documents separate_pages splits a file into
MaxDocuments == 2

\* how often a consume_file request is run again after a failed run
MaxRuns == 2

\* the documents of one bulk_update_documents batch, or in the database
MaxBulk == 2

(* ------------------------ the account checked -------------------------- *)

\* primary keys of the account's mail rules
Rules == {1, 2}
\* uids of the messages in the rules' folder
Uids == {1, 2}

(* --------------------------- rule settings ----------------------------- *)

\* MailRule.ConsumptionScope
ConsumptionScope == {"EML_ONLY", "ATTACHMENTS_ONLY", "EVERYTHING"}

\* MailRule.MailAction values handled by get_rule_action; DELETE has no
\* pre-filter, MARK_READ restricts the fetch to unseen messages
MailAction == {"DELETE", "MARK_READ"}

\* every rule of the model reads the same folder
Folder == "INBOX"

\* the scope after s in the listing of MailRule.ConsumptionScope
NextScope(s) ==
    IF s = "ATTACHMENTS_ONLY" THEN "EML_ONLY"
    ELSE IF s = "EML_ONLY" THEN "EVERYTHING"
    ELSE "ATTACHMENTS_ONLY"

\* The rule tables checked. Rule 1 deletes and rule 2 marks as read; rule 2
\* has the smaller order field, and the two scopes run through every pair of
\* successive scopes.
RuleTables ==
    {[r \in Rules |->
        IF r = 1
        THEN [order |-> 2, consumption_scope |-> s, action |-> "DELETE"]
        ELSE [order |-> 1, consumption_scope |-> NextScope(s),
              action |-> "MARK_READ"]] : s \in ConsumptionScope}

\* The folders checked. An attachment is TRUE when its sniffed mime type is
\* supported (is_mime_type_supported). Message 1 carries two attachments,
\* one of them of an unsupported type; message 2 carries none, or one of an
\* unsupported type.
Folders ==
    {[u \in Uids |-> IF u = 1 THEN <<TRUE, FALSE>> ELSE a] :
        a \in {<<>>, <<FALSE>>}}

VARIABLES
    rules,                  \* MailRule rows: order, consumption_scope, action
    attachments,            \* attachments of each message of the folder
    mailbox,                \* server state of each message: present, seen
    ledger,                 \* bag of ProcessedMail rows
    pc,                     \* position of handle_mail_account
    ruleQueue,              \* rules of the current run not yet finished
    messages,               \* fetched messages of the current rule not yet handled
    evaluated,              \* rules evaluated in the current run, with outcome
    total_processed_files,  \* running total of handle_mail_account
    handled,                \* the last iteration of the message loop and how it ended
    batches,                \* the chords queued so far, in queue order
    login,                  \* the mailbox_login call of the run being started
    attRun,                 \* a _process_attachments call, step by step
    boxRun,                 \* a rule's fetch and mail actions on a mailbox
    consume,                \* a consume_file task, step by step
    dataRun,                \* a constructor or helper call, step by step
    workers,                \* the index or archive task of each worker
    locks                   \* who holds the index write lock, the media lock

\* the state of the account runs and of the queued chords
mailVars == <<rules, attachments, mailbox, ledger, pc, ruleQueue, messages,
              evaluated, total_processed_files, handled, batches, login>>

\* the state of the calls followed on their own
callVars == <<attRun, boxRun, consume, dataRun>>

\* the state of the index and archive tasks
taskVars == <<workers, locks>>

vars == <<mailVars, callVars, taskVars>>

(* ------------------------------ helpers -------------------------------- *)

RECURSIVE CountTrue(_)
CountTrue(s) ==
    IF s = <<>> THEN 0
    ELSE (IF Head(s) THEN 1 ELSE 0) + CountTrue(Tail(s))

RECURSIVE SeqOfSet(_)
\* the elements of a set of integers in ascending order
SeqOfSet(S) ==
    IF S = {} THEN <<>>
    ELSE LET m == CHOOSE x \in S : \A y \in S : x <= y
         IN <<m>> \o SeqOfSet(S \ {m})

\* no mailbox_login call under way
NoLogin == [primary |-> "none", alternate |-> "none", attempts |-> <<>>,
            raised |-> "none"]

\* no call followed
NoRun == [pc |-> "none"]

\* no iteration of the message loop made yet in this run
\* the index write lock and the media lock are free
NoLocks == [writer |-> 0, media |-> 0]

NoCall == [rule |-> 0, uid |-> 0, call |-> 0, outcome |-> "none"]

\* The accounts checked: every rule table on the folder whose message 2 has
\* no attachment, and the table whose deleting rule reads attachments only
\* on the folder whose message 2 has an unsupported one.
Accounts ==
    {a \in [rules : RuleTables, attachments : Folders] :
        a.attachments[2] # <<>>
            => a.rules[1].consumption_scope = "ATTACHMENTS_ONLY"}

(* --------------------------- ProcessedMail ----------------------------- *)

\* ProcessedMail.objects.filter(rule=, uid=, folder=).exists()
ProcessedMailExists(l, rule, folder, uid) ==
    \E rec \in BagToSet(l) :
        rec.rule = rule /\ rec.folder = folder /\ rec.uid = uid

ProcessedMailRow(rule, uid, status) ==
    [rule |-> rule, folder |-> Folder, uid |-> uid, status |-> status]

\* the insert is refused (IntegrityError) when the key (rule, folder, uid)
\* is already taken
InsertConflicts(l, rec) == ProcessedMailExists(l, rec.rule, rec.folder, rec.uid)

\* variant of the insert: a table without the unique key
ProcessedMailCreateNoKey(l, rec) == l (+) SetToBag({rec})

\* ProcessedMail.objects.create(...): the ledger after the call; a refused
\* insert leaves it unchanged
ProcessedMailCreate(l, rec) ==
    IF InsertConflicts(l, rec) THEN l ELSE l (+) SetToBag({rec})

(* ------------------------- criteria and fetch -------------------------- *)

\* get_criteria of the rule's mail action: MarkReadMailAction restricts to
\* unseen messages, DeleteMailAction (BaseMailAction) restricts nothing
ActionCriteria(action, msg) ==
    IF action = "MARK_READ" THEN ~msg.seen ELSE TRUE

\* M.fetch(criteria=make_criterias(rule)): the uids of the folder's messages
\* that satisfy the criteria, in mailbox order
Fetch(mb, rule) ==
    SeqOfSet({u \in Uids : mb[u].present /\ ActionCriteria(rule.action, mb[u])})

\* account.rules.order_by("order"): every listing of the rules in
\* non-decreasing order field (rows of equal order come in any order)
OrderBy(rs) ==
    {q \in [1..Cardinality(Rules) -> Rules] :
        /\ \A i, j \in DOMAIN q : i # j => q[i] # q[j]
        /\ \A i, j \in DOMAIN q : i < j => rs[q[i]].order <= rs[q[j]].order}

(* --------------------------- _handle_message --------------------------- *)

\* where an exception is raised inside _handle_message, if anywhere
FailPoints == {"none", "correspondent", "eml", "attachments"}

ScopeHasEml(scope) == scope \in {"EML_ONLY", "EVERYTHING"}
ScopeHasAttachments(scope) == scope \in {"ATTACHMENTS_ONLY", "EVERYTHING"}

\* variant of the early return: taken when no attachment would be consumed
SkipsMessageNoneConsumed(rule, atts) ==
    CountTrue(atts) = 0 /\ rule.consumption_scope = "ATTACHMENTS_ONLY"

\* the early return of _handle_message: attachments only, and none present
SkipsMessage(rule, atts) ==
    atts = <<>> /\ rule.consumption_scope = "ATTACHMENTS_ONLY"

\* _process_eml raises before its queue_consumption_tasks call
EmlRaises(rule, atts, fail) ==
    ScopeHasEml(rule.consumption_scope) /\ fail = "eml"

\* the attachment loop of _process_attachments raises (it needs an
\* attachment to run), before the queue_consumption_tasks call after it
AttachmentsRaise(rule, atts, fail) ==
    ScopeHasAttachments(rule.consumption_scope) /\ fail = "attachments"
        /\ atts # <<>>

\* _process_eml enqueued its chord: one consume task
EmlQueued(rule, atts, fail) ==
    /\ ~SkipsMessage(rule, atts)
    /\ fail # "correspondent"
    /\ ScopeHasEml(rule.consumption_scope)
    /\ ~EmlRaises(rule, atts, fail)

\* _process_attachments enqueued its chord: one consume task per attachment
\* of a supported mime type (possibly none)
AttachmentsQueued(rule, atts, fail) ==
    /\ ~SkipsMessage(rule, atts)
    /\ fail # "correspondent"
    /\ ~EmlRaises(rule, atts, fail)
    /\ ScopeHasAttachments(rule.consumption_scope)
    /\ ~AttachmentsRaise(rule, atts, fail)

\* _handle_message left by an exception
MessageRaises(rule, atts, fail) ==
    /\ ~SkipsMessage(rule, atts)
    /\ \/ fail = "correspondent"
       \/ EmlRaises(rule, atts, fail)
       \/ AttachmentsRaise(rule, atts, fail)

\* the value _handle_message returns when it returns
ProcessedElements(rule, atts, fail) ==
    (IF EmlQueued(rule, atts, fail) THEN 1 ELSE 0)
    + (IF AttachmentsQueued(rule, atts, fail) THEN CountTrue(atts) ELSE 0)

\* chord(header=consume_tasks, body=apply_mail_action).on_error(...).delay():
\* with an empty header the body is due at once. call numbers the
\* _handle_message call that queued the chord; failed: a header task
\* failed; acted: post_consume was carried out; conflict: a task of the
\* chord was left by the IntegrityError of a refused ledger insert.
QueueConsumptionTasks(call, rule, uid, kind, n) ==
    [call |-> call, rule |-> rule, uid |-> uid, kind |-> kind,
     st |-> IF n = 0 THEN "body" ELSE "header", n |-> n, pending |-> n,
     failed |-> FALSE, acted |-> FALSE, conflict |-> FALSE]

(* -------------------------------- Init --------------------------------- *)

Init ==
    /\ \E a \in Accounts : rules = a.rules /\ attachments = a.attachments
    /\ mailbox = [u \in Uids |-> [present |-> TRUE, seen |-> FALSE]]
    /\ ledger = EmptyBag
    /\ pc = "idle"
    /\ ruleQueue = <<>>
    /\ messages = <<>>
    /\ evaluated = <<>>
    /\ total_processed_files = 0
    /\ handled = NoCall
    /\ batches = <<>>
    /\ login = NoLogin
    /\ attRun = NoRun
    /\ boxRun = NoRun
    /\ consume = NoRun
    /\ dataRun = NoRun
    /\ workers = NoRun
    /\ locks = NoLocks

(* ------------------------- handle_mail_account ------------------------- *)

\* position after the current rule is finished: the next rule of the loop,
\* or the end of the run
AfterRule(q) == IF Tail(q) = <<>> THEN "return" ELSE "rules"

\* outcomes of MailBox.login and of MailBox.login_utf8
PrimaryOutcomes == {"ok", "UnicodeEncodeError", "MailboxLoginError"}
AlternateOutcomes == {"ok", "MailboxLoginError"}

\* variant of mailbox_login: every failure of login falls back to login_utf8
MailboxLoginAlwaysFallsBack(primary, alternate) ==
    IF primary = "ok"
    THEN [attempts |-> <<"login">>, raised |-> "none"]
    ELSE [attempts |-> <<"login", "login_utf8">>,
          raised |-> IF alternate = "ok" THEN "none" ELSE "MailError"]

\* mailbox_login: the calls it makes on the mailbox and what it raises
MailboxLogin(primary, alternate) ==
    IF primary = "ok"
    THEN [attempts |-> <<"login">>, raised |-> "none"]
    ELSE IF primary = "UnicodeEncodeError"
    THEN [attempts |-> <<"login", "login_utf8">>,
          raised |-> IF alternate = "ok" THEN "none" ELSE "MailError"]
    ELSE [attempts |-> <<"login">>, raised |-> "MailError"]

\* handle_mail_account up to mailbox_login; MailError leaves the with block
Login(primary, alternate) ==
    /\ pc = "idle"
    /\ LET res == MailboxLogin(primary, alternate)
       IN /\ login' = [primary |-> primary,
                        alternate |-> IF Len(res.attempts) > 1 THEN alternate
                                      ELSE "none",
                        attempts |-> res.attempts, raised |-> res.raised]
          /\ pc' = IF res.raised = "none" THEN "login" ELSE "raise"
    /\ UNCHANGED <<rules, attachments, mailbox, ledger, ruleQueue, messages,
                   evaluated, total_processed_files, handled, batches>>
    /\ UNCHANGED <<callVars, taskVars>>

\* handle_mail_account: "except MailError: raise", the run ends
RaiseMailError ==
    /\ pc = "raise"
    /\ pc' = "idle"
    /\ login' = NoLogin
    /\ UNCHANGED <<rules, attachments, mailbox, ledger, ruleQueue, messages,
                   evaluated, total_processed_files, handled, batches>>
    /\ UNCHANGED <<callVars, taskVars>>

\* handle_mail_account after the login up to the rule loop: the rules are
\* listed in order
StartRun ==
    /\ pc = "login"
    /\ \E q \in OrderBy(rules) : ruleQueue' = q
    /\ pc' = "rules"
    /\ login' = NoLogin
    /\ UNCHANGED <<rules, attachments, mailbox, ledger, messages, evaluated,
                   total_processed_files, handled, batches>>
    /\ UNCHANGED <<callVars, taskVars>>

\* handle_mail_account returns total_processed_files; its locals are gone
ReturnTotal ==
    /\ pc = "return"
    /\ pc' = "idle"
    /\ evaluated' = <<>>
    /\ total_processed_files' = 0
    /\ handled' = NoCall
    /\ UNCHANGED <<rules, attachments, mailbox, ledger, ruleQueue,
                   messages, batches>>
    /\ UNCHANGED <<login, attRun, boxRun, consume, dataRun, taskVars>>

\* variant of the rule loop: the exception is not caught and ends the run
RuleRaisesUncaught(outcome) ==
    /\ pc = "rules"
    /\ evaluated' = Append(evaluated, [rule |-> Head(ruleQueue), outcome |-> outcome])
    /\ ruleQueue' = <<>>
    /\ pc' = "return"
    /\ UNCHANGED <<rules, attachments, mailbox, ledger, messages,
                   total_processed_files, handled, batches>>
    /\ UNCHANGED <<login, attRun, boxRun, consume, dataRun, taskVars>>

\* _handle_mail_rule raises MailError (M.folder.set or M.fetch failed); the
\* rule loop catches it and goes on with the next rule
RuleRaises(outcome) ==
    /\ pc = "rules"
    /\ evaluated' = Append(evaluated, [rule |-> Head(ruleQueue), outcome |-> outcome])
    /\ ruleQueue' = Tail(ruleQueue)
    /\ pc' = AfterRule(ruleQueue)
    /\ UNCHANGED <<rules, attachments, mailbox, ledger, messages,
                   total_processed_files, handled, batches>>
    /\ UNCHANGED <<login, attRun, boxRun, consume, dataRun, taskVars>>

\* M.folder.set(rule.folder) raised MailboxFolderSelectError
FolderError == RuleRaises("error")

\* M.fetch raised
FetchError == RuleRaises("error")

\* _handle_mail_rule up to the message loop: folder selected, messages fetched
HandleMailRule ==
    /\ pc = "rules"
    /\ LET r == Head(ruleQueue)
           fetched == Fetch(mailbox, rules[r])
       IN /\ evaluated' = Append(evaluated, [rule |-> r, outcome |-> "ok"])
          /\ messages' = fetched
          /\ IF fetched = <<>>
             THEN /\ ruleQueue' = Tail(ruleQueue)
                  /\ pc' = AfterRule(ruleQueue)
             ELSE /\ ruleQueue' = ruleQueue
                  /\ pc' = "messages"
    /\ UNCHANGED <<rules, attachments, mailbox, ledger,
                   total_processed_files, handled, batches>>
    /\ UNCHANGED <<login, attRun, boxRun, consume, dataRun, taskVars>>

\* the end of one iteration of the message loop
NextMessage ==
    /\ messages' = Tail(messages)
    /\ IF Tail(messages) = <<>>
       THEN /\ ruleQueue' = Tail(ruleQueue)
            /\ pc' = AfterRule(ruleQueue)
       ELSE /\ ruleQueue' = ruleQueue
            /\ pc' = "messages"

\* variant of the ledger check: only rows of status SUCCESS count
AlreadyProcessedSuccessOnly(l, rule, uid) ==
    \E rec \in BagToSet(l) :
        /\ rec.rule = rule /\ rec.folder = Folder /\ rec.uid = uid
        /\ rec.status = "SUCCESS"

\* the ledger check of the message loop
AlreadyProcessed(l, rule, uid) == ProcessedMailExists(l, rule, Folder, uid)

\* message loop: the message is in the ledger and is skipped
SkipProcessed ==
    /\ pc = "messages"
    /\ AlreadyProcessed(ledger, Head(ruleQueue), Head(messages))
    /\ handled' = [rule |-> Head(ruleQueue), uid |-> Head(messages),
                    call |-> 0, outcome |-> "skipped"]
    /\ NextMessage
    /\ UNCHANGED <<rules, attachments, mailbox, ledger, evaluated,
                   total_processed_files, batches>>
    /\ UNCHANGED <<login, attRun, boxRun, consume, dataRun, taskVars>>

\* the chords one _handle_message call queues, in queue order
NewChords(call, r, u, rule, atts, fail) ==
    (IF EmlQueued(rule, atts, fail)
     THEN <<QueueConsumptionTasks(call, r, u, "eml", 1)>> ELSE <<>>)
    \o (IF AttachmentsQueued(rule, atts, fail)
        THEN <<QueueConsumptionTasks(call, r, u, "att", CountTrue(atts))>>
        ELSE <<>>)

\* message loop: _handle_message runs, returning or raising; an exception
\* is caught by the loop
HandleMessage(fail) ==
    /\ pc = "messages"
    /\ ~AlreadyProcessed(ledger, Head(ruleQueue), Head(messages))
    /\ LET r == Head(ruleQueue)
           u == Head(messages)
           rule == rules[r]
           atts == attachments[u]
           call == Len(batches) + 1
           new == NewChords(call, r, u, rule, atts, fail)
       IN /\ Len(batches) + Len(new) <= MaxBatches
          /\ batches' = batches \o new
          /\ handled' = [rule |-> r, uid |-> u, call |-> call,
                          outcome |-> IF MessageRaises(rule, atts, fail)
                                      THEN "raised" ELSE "returned"]
          /\ total_processed_files' =
                IF MessageRaises(rule, atts, fail)
                THEN total_processed_files
                ELSE total_processed_files + ProcessedElements(rule, atts, fail)
    /\ NextMessage
    /\ UNCHANGED <<rules, attachments, mailbox, ledger, evaluated>>
    /\ UNCHANGED <<login, attRun, boxRun, consume, dataRun, taskVars>>

(* ------------------------- the queued chords --------------------------- *)

\* a consume_file task of the chord's header ends, with success or failure;
\* when the last one has ended the body is due if all succeeded and the
\* error callback otherwise
ConsumeFile(k, ok) ==
    /\ k \in DOMAIN batches
    /\ batches[k].st = "header"
    /\ LET b == batches[k]
           left == b.pending - 1
           failed == b.failed \/ ~ok
       IN batches' = [batches EXCEPT ![k] =
              [b EXCEPT !.pending = left,
                        !.failed = failed,
                        !.st = IF left > 0 THEN "header"
                               ELSE IF failed THEN "errback" ELSE "body"]]
    /\ UNCHANGED <<rules, attachments, mailbox, ledger, pc, ruleQueue,
                   messages, evaluated, total_processed_files, handled>>
    /\ UNCHANGED <<login, attRun, boxRun, consume, dataRun, taskVars>>

\* action.post_consume(M, message_uid, parameter)
PostConsume(mb, action, uid) ==
    IF action = "DELETE" THEN [mb EXCEPT ![uid].present = FALSE]
    ELSE IF mb[uid].present THEN [mb EXCEPT ![uid].seen = TRUE]
    ELSE mb

\* variant of the try block: the SUCCESS row is inserted before the login
TryBlockCreateFirst(l, success, actionOk) == ProcessedMailCreate(l, success)

\* the try block of apply_mail_action: the SUCCESS row is inserted once
\* login, folder selection and post_consume have returned
TryBlockCreate(l, success, actionOk) ==
    IF actionOk THEN ProcessedMailCreate(l, success) ELSE l

\* apply_mail_action, the body of the chord. actionOk: the try block got
\* past post_consume. A refused insert of the SUCCESS row lands in the except
\* block, whose insert of the FAILED row is refused too and leaves the task
\* by that exception; the except block re-raises in every case.
ApplyMailAction(k, actionOk) ==
    /\ k \in DOMAIN batches
    /\ batches[k].st = "body"
    /\ LET r == batches[k].rule
           u == batches[k].uid
           success == ProcessedMailRow(r, u, "SUCCESS")
           failure == ProcessedMailRow(r, u, "FAILED")
           tried == TryBlockCreate(ledger, success, actionOk)
           excepted == ~actionOk \/ InsertConflicts(ledger, success)
       IN /\ mailbox' = IF actionOk
                        THEN PostConsume(mailbox, rules[r].action, u)
                        ELSE mailbox
          /\ ledger' = IF excepted THEN ProcessedMailCreate(tried, failure)
                       ELSE tried
          /\ batches' = [batches EXCEPT ![k] =
                 [@ EXCEPT !.acted = actionOk,
                           !.conflict = excepted /\ InsertConflicts(tried, failure),
                           !.st = IF excepted THEN "errback" ELSE "done"]]
    /\ UNCHANGED <<rules, attachments, pc, ruleQueue, messages,
                   evaluated, total_processed_files, handled>>
    /\ UNCHANGED <<login, attRun, boxRun, consume, dataRun, taskVars>>

\* variant of error_callback: it logs the failure and writes no row
ErrorCallbackLogsOnly(k) ==
    /\ k \in DOMAIN batches
    /\ batches[k].st = "errback"
    /\ batches' = [batches EXCEPT ![k] = [@ EXCEPT !.st = "done"]]
    /\ UNCHANGED <<rules, attachments, mailbox, ledger, pc, ruleQueue, messages,
                   evaluated, total_processed_files, handled>>
    /\ UNCHANGED <<login, attRun, boxRun, consume, dataRun, taskVars>>

\* error_callback, called when a header task or the body failed
ErrorCallback(k) ==
    /\ k \in DOMAIN batches
    /\ batches[k].st = "errback"
    /\ LET failure == ProcessedMailRow(batches[k].rule, batches[k].uid, "FAILED")
       IN /\ ledger' = ProcessedMailCreate(ledger, failure)
          /\ batches' = [batches EXCEPT ![k] =
                 [@ EXCEPT !.conflict = @ \/ InsertConflicts(ledger, failure),
                           !.st = "done"]]
    /\ UNCHANGED <<rules, attachments, mailbox, pc, ruleQueue, messages,
                   evaluated, total_processed_files, handled>>
    /\ UNCHANGED <<login, attRun, boxRun, consume, dataRun, taskVars>>

(* ------------------------- _process_attachments ------------------------ *)

\* str.lower() on the characters used in file names and patterns
LowerChar(c) == IF c = "A" THEN "a" ELSE IF c = "B" THEN "b" ELSE c

Lower(str) == [i \in DOMAIN str |-> LowerChar(str[i])]

RECURSIVE FnmatchCase(_, _)
\* the glob match of fnmatch: * matches any run of characters, every other
\* character matches itself
FnmatchCase(name, pat) ==
    IF pat = <<>> THEN name = <<>>
    ELSE IF Head(pat) = "*"
    THEN \/ FnmatchCase(name, Tail(pat))
         \/ name # <<>> /\ FnmatchCase(Tail(name), pat)
    ELSE /\ name # <<>>
         /\ Head(name) = Head(pat)
         /\ FnmatchCase(Tail(name), Tail(pat))

\* file names and filename filters, as sequences of characters; the empty
\* filter is "no filter"
FileNames == {<<"a">>, <<"A">>, <<"a", "b">>}
FilenameFilters == {<<>>, <<"A">>, <<"a", "*">>, <<"*", "B">>}

\* MailRule.AttachmentProcessing
AttachmentProcessing == {"ATTACHMENTS_ONLY", "EVERYTHING"}

\* an attachment: supported tells whether the mime type sniffed from the
\* payload passes is_mime_type_supported
Attachments ==
    [filename : FileNames, content_disposition : {"attachment", "inline"},
     supported : BOOLEAN]

AttachmentLists ==
    UNION {[1..n -> Attachments] : n \in 0..MaxAttachments}

\* variant of the filename test: the pattern is used as written
FilenameMatchesPatternAsWritten(rule, att) ==
    FnmatchCase(Lower(att.filename), rule.filter_attachment_filename)

\* the filename test of the attachment loop
FilenameMatches(rule, att) ==
    FnmatchCase(Lower(att.filename), Lower(rule.filter_attachment_filename))

\* the calls followed: every rule setting on every attachment list
AttachmentCalls ==
    {[pc |-> "loop", rule |-> r, atts |-> l, i |-> 1, consume_tasks |-> <<>>,
      processed_attachments |-> 0, queued |-> <<>>, returned |-> 0] :
        r \in [attachment_type : AttachmentProcessing,
               filter_attachment_filename : FilenameFilters],
        l \in AttachmentLists}

\* one iteration of "for att in message.attachments"; the consume task made
\* for an attachment is written as the attachment's position
AttachmentLoop ==
    /\ attRun.pc = "loop"
    /\ attRun.i <= Len(attRun.atts)
    /\ LET att == attRun.atts[attRun.i]
           rule == attRun.rule
           skipped ==
               \/ /\ att.content_disposition # "attachment"
                  /\ rule.attachment_type = "ATTACHMENTS_ONLY"
               \/ /\ rule.filter_attachment_filename # <<>>
                  /\ ~FilenameMatches(rule, att)
       IN attRun' =
             IF ~skipped /\ att.supported
             THEN [attRun EXCEPT
                     !.consume_tasks = Append(@, attRun.i),
                     !.processed_attachments = @ + 1,
                     !.i = @ + 1]
             ELSE [attRun EXCEPT !.i = @ + 1]
    /\ UNCHANGED <<mailVars, boxRun, consume, dataRun, taskVars>>

\* after the loop: queue_consumption_tasks(consume_tasks=...) and return
AttachmentsReturn ==
    /\ attRun.pc = "loop"
    /\ attRun.i > Len(attRun.atts)
    /\ attRun' = [attRun EXCEPT !.pc = "returned",
                                 !.queued = attRun.consume_tasks,
                                 !.returned = attRun.processed_attachments]
    /\ UNCHANGED <<mailVars, boxRun, consume, dataRun, taskVars>>

(* ------------------ criteria and mail actions on a mailbox ------------- *)

\* action and action_parameter of the rules followed: every MailAction of
\* get_rule_action, TAG with a keyword and with an Apple Mail colour
ActionSettings ==
    {[action |-> "DELETE", action_parameter |-> ""],
     [action |-> "MARK_READ", action_parameter |-> ""],
     [action |-> "MOVE", action_parameter |-> "spam"],
     [action |-> "FLAG", action_parameter |-> ""],
     [action |-> "TAG", action_parameter |-> "processed"],
     [action |-> "TAG", action_parameter |-> "apple:green"]}

\* TagMailAction.__init__: the colour of an "apple:<color>" parameter, ""
\* (None) for a keyword parameter
TagColor(parameter) == IF parameter = "apple:green" THEN "green" ELSE ""

\* TagMailAction.__init__: the keyword, "" (None) for a colour parameter
TagKeyword(parameter) == IF TagColor(parameter) # "" THEN "" ELSE parameter

\* APPLE_MAIL_TAG_COLORS.get(color) and the union of all its values
AppleMailFlagBits(color) ==
    IF color = "green" THEN {"$MailFlagBit0", "$MailFlagBit1"} ELSE {}
AllAppleMailFlagBits == {"$MailFlagBit0", "$MailFlagBit1", "$MailFlagBit2"}

\* get_rule_action(rule).get_criteria(): the keys of the action's query
GetCriteria(rule) ==
    IF rule.action = "MARK_READ" THEN {"seen"}
    ELSE IF rule.action = "FLAG" THEN {"flagged"}
    ELSE IF rule.action = "TAG"
    THEN IF TagColor(rule.action_parameter) # "" THEN {"flagged"}
         ELSE {"not_gmail_label", "no_keyword"}
    ELSE {}

\* variant of make_criterias: the age bound is added whatever maximum_age is
MakeCriteriasAlwaysAge(rule) ==
    GetCriteria(rule) \cup {"date_gte"}
    \cup (IF rule.filter_from # "" THEN {"from_"} ELSE {})
    \cup (IF rule.filter_subject # "" THEN {"subject"} ELSE {})
    \cup (IF rule.filter_body # "" THEN {"body"} ELSE {})

\* make_criterias(rule): the keys of the conjunction AND(...) it returns
MakeCriterias(rule) ==
    GetCriteria(rule)
    \cup (IF rule.maximum_age > 0 THEN {"date_gte"} ELSE {})
    \cup (IF rule.filter_from # "" THEN {"from_"} ELSE {})
    \cup (IF rule.filter_subject # "" THEN {"subject"} ELSE {})
    \cup (IF rule.filter_body # "" THEN {"body"} ELSE {})

\* the server's test of one conjunct on a message; the value of each key is
\* the one make_criterias and get_criteria give it for the rule
MatchesKey(msg, rule, key) ==
    IF key = "date_gte" THEN msg.age_days <= rule.maximum_age
    ELSE IF key = "from_" THEN rule.filter_from \in msg.from_
    ELSE IF key = "subject" THEN rule.filter_subject \in msg.subject
    ELSE IF key = "body" THEN rule.filter_body \in msg.text
    ELSE IF key = "seen" THEN ~msg.seen
    ELSE IF key = "flagged" THEN ~msg.flagged
    ELSE IF key = "not_gmail_label"
    THEN TagKeyword(rule.action_parameter) \notin msg.gmail_labels
    ELSE TagKeyword(rule.action_parameter) \notin msg.keywords

\* M.fetch(criteria=...) on the selected folder
BoxFetched(box, rule, criteria) ==
    {u \in DOMAIN box :
        /\ box[u].folder = "INBOX"
        /\ \A key \in criteria : MatchesKey(box[u], rule, key)}

\* action.post_consume(M, message_uid, rule.action_parameter) on a message;
\* gmail: M._host ends in gmail.com or googlemail.com. Storing the label
\* None of a colour parameter on such a host labels nothing.
MailActionPostConsume(msg, rule, gmail) ==
    IF rule.action = "DELETE" THEN [msg EXCEPT !.folder = "deleted"]
    ELSE IF rule.action = "MARK_READ" THEN [msg EXCEPT !.seen = TRUE]
    ELSE IF rule.action = "MOVE"
    THEN [msg EXCEPT !.folder = rule.action_parameter]
    ELSE IF rule.action = "FLAG" THEN [msg EXCEPT !.flagged = TRUE]
    ELSE IF gmail
    THEN IF TagKeyword(rule.action_parameter) = "" THEN msg
         ELSE [msg EXCEPT !.gmail_labels =
                              @ \cup {TagKeyword(rule.action_parameter)}]
    ELSE IF TagColor(rule.action_parameter) # ""
    THEN [msg EXCEPT
            !.keywords = (@ \ AllAppleMailFlagBits)
                \cup AppleMailFlagBits(TagColor(rule.action_parameter)),
            !.flagged = TRUE]
    ELSE [msg EXCEPT !.keywords = @ \cup {TagKeyword(rule.action_parameter)}]

\* the rules followed
BoxRules ==
    {[maximum_age |-> age, filter_from |-> f, filter_subject |-> sj,
      filter_body |-> b, action |-> a.action,
      action_parameter |-> a.action_parameter] :
        age \in {0, 30}, f \in {"", "amazon"}, sj \in {"", "Claim"},
        b \in {"", "cables"}, a \in ActionSettings}

\* the mailboxes followed: two messages of the folder with fixed headers
\* and text, and every setting of their flags
BoxFlags ==
    [seen : BOOLEAN, flagged : BOOLEAN, keywords : {{}, {"processed"}},
     gmail_labels : {{}, {"processed"}}]

BoxMessage(u, fl) ==
    [folder |-> "INBOX",
     age_days |-> IF u = 1 THEN 60 ELSE 1,
     from_ |-> IF u = 1 THEN {"amazon"} ELSE {"store"},
     subject |-> IF u = 1 THEN {"Invoice"} ELSE {"Claim"},
     text |-> IF u = 1 THEN {"cables"} ELSE {"price"},
     seen |-> fl.seen, flagged |-> fl.flagged, keywords |-> fl.keywords,
     gmail_labels |-> fl.gmail_labels]

BoxMailboxes ==
    {[u \in Uids |-> BoxMessage(u, fl[u])] : fl \in [Uids -> BoxFlags]}

\* the runs followed; only a TAG rule is also followed on a Gmail host
BoxRuns ==
    {[pc |-> "fetch", rule |-> r, gmail |-> g, before |-> mb, box |-> mb,
      fetched |-> {}, queued |-> {}, applied |-> {}, failed |-> {}] :
        r \in BoxRules, g \in BOOLEAN, mb \in BoxMailboxes}

\* _handle_mail_rule: the messages fetched for the rule
BoxFetch ==
    /\ boxRun.pc = "fetch"
    /\ boxRun' = [boxRun EXCEPT
          !.pc = "queue",
          !.fetched = BoxFetched(boxRun.box, boxRun.rule,
                                 MakeCriterias(boxRun.rule))]
    /\ UNCHANGED <<mailVars, attRun, consume, dataRun, taskVars>>

\* the message loop: the fetched messages for which a chord is queued (the
\* others are skipped or their handling raised)
BoxQueue(S) ==
    /\ boxRun.pc = "queue"
    /\ S \subseteq boxRun.fetched
    /\ boxRun' = [boxRun EXCEPT !.pc = "apply", !.queued = S]
    /\ UNCHANGED <<mailVars, attRun, consume, dataRun, taskVars>>

\* the STORE of the label None is refused by the server or taken
StoresNoLabel(rule, gmail) ==
    rule.action = "TAG" /\ gmail /\ TagKeyword(rule.action_parameter) = ""

\* apply_mail_action of a queued message gets past post_consume
BoxApply(u) ==
    /\ boxRun.pc = "apply"
    /\ u \in boxRun.queued \ (boxRun.applied \cup boxRun.failed)
    /\ boxRun' = [boxRun EXCEPT
          !.box[u] = MailActionPostConsume(@, boxRun.rule, boxRun.gmail),
          !.applied = @ \cup {u}]
    /\ UNCHANGED <<mailVars, attRun, consume, dataRun, taskVars>>

\* post_consume raises: the server refused the STORE of the label None
BoxApplyRaises(u) ==
    /\ boxRun.pc = "apply"
    /\ u \in boxRun.queued \ (boxRun.applied \cup boxRun.failed)
    /\ StoresNoLabel(boxRun.rule, boxRun.gmail)
    /\ boxRun' = [boxRun EXCEPT !.failed = @ \cup {u}]
    /\ UNCHANGED <<mailVars, attRun, consume, dataRun, taskVars>>

(* ----------------------------- consume_file ---------------------------- *)

\* DocumentMetadataOverrides as consume_file receives them, None written
\* "None"; the fields other than filename and asn are followed as one
OverridesGiven ==
    [filename : {"None", "simple.pdf"}, asn : {"None", "500"},
     others : {"None", "given"}]

\* the tasks followed. separators: get_separating_barcodes found some;
\* documents: the length of the list separate_pages returns when called;
\* asn_barcode: what get_asn_from_barcodes returns. files: the original
\* file, the PDF made of a TIFF original by the scan, and the documents of
\* separate_pages not yet removed; saved: the newname of every save_to_dir
\* of this run; target: the files of save_to_dir, over all runs of the
\* request, and before: the files there were when the last run began; run: how often
\* the request was run again. raised: the error the
\* Consumer raised; error: the error that left consume_file; rows: the
\* document rows made.
ConsumeTasks ==
    {[pc |-> "start", enable_barcodes |-> eb, enable_asn |-> ea,
      source |-> so, mime_type |-> mt, separators |-> sp, documents |-> n,
      asn_barcode |-> ab, given |-> ov, overrides |-> ov,
      scanned |-> FALSE, asn_read |-> FALSE, n |-> 0,
      original |-> TRUE, pdf |-> FALSE, split |-> {}, saved |-> <<>>,
      save_to_dir |-> "", consumer |-> <<>>, result |-> "",
      raised |-> "", error |-> "", rows |-> 0, target |-> {},
      before |-> [original |-> TRUE, target |-> {}],
      run |-> 0] :
        eb \in BOOLEAN, ea \in BOOLEAN,
        so \in {"CONSUME_FOLDER", "API_UPLOAD"},
        mt \in {"application/pdf", "image/tiff"},
        sp \in BOOLEAN, n \in 0..MaxDocuments,
        ab \in {"None", "7"}, ov \in OverridesGiven}

\* variant of the test: only the splitting setting counts
BarcodesEnabledSplitOnly(c) == c.enable_barcodes

\* settings.CONSUMER_ENABLE_BARCODES or settings.CONSUMER_ENABLE_ASN_BARCODE
BarcodesEnabled(c) == c.enable_barcodes \/ c.enable_asn

\* barcodes.scan_file_for_barcodes: a TIFF original is converted to a PDF
ScanFileForBarcodes ==
    /\ consume.pc = "start"
    /\ BarcodesEnabled(consume)
    /\ consume' = [consume EXCEPT
          !.pc = "scanned", !.scanned = TRUE,
          !.pdf = (@ \/ (consume.mime_type = "image/tiff"
                              /\ consume.original))]
    /\ UNCHANGED <<mailVars, attRun, boxRun, dataRun, taskVars>>

\* both barcode settings off: straight to the Consumer
SkipBarcodes ==
    /\ consume.pc = "start"
    /\ ~BarcodesEnabled(consume)
    /\ consume' = [consume EXCEPT !.pc = "consumer"]
    /\ UNCHANGED <<mailVars, attRun, boxRun, dataRun, taskVars>>

\* variant: an empty list ends the task
AfterSeparatePagesEmptyEnds(n) == IF n > 0 THEN "saving" ELSE "done"

\* the position after separate_pages returned a list of n documents
AfterSeparatePages(n) == IF n > 0 THEN "saving" ELSE "asn"

\* separators were found: separate_pages is called; a non-empty
\* document_list is saved to save_to_dir, an empty one falls through
SeparatePages ==
    /\ consume.pc = "scanned"
    /\ consume.enable_barcodes /\ consume.separators
    /\ consume' = [consume EXCEPT
          !.pc = AfterSeparatePages(consume.documents),
          !.split = 0..(consume.documents - 1),
          !.save_to_dir =
              IF consume.documents = 0 THEN ""
              ELSE IF consume.source # "CONSUME_FOLDER"
              THEN "CONSUMPTION_DIR" ELSE "original_file.parent"]
    /\ UNCHANGED <<mailVars, attRun, boxRun, dataRun, taskVars>>

\* splitting is off or no separator was found
NoSplit ==
    /\ consume.pc = "scanned"
    /\ ~(consume.enable_barcodes /\ consume.separators)
    /\ consume' = [consume EXCEPT !.pc = "asn"]
    /\ UNCHANGED <<mailVars, attRun, boxRun, dataRun, taskVars>>

\* the newname of document n of the list
NewName(n, filename) == IF filename = "None" THEN <<>> ELSE <<n, filename>>

\* variant: the file is saved under a name that carries the number of the
\* run
SavedFileNamedByRun(n, filename, run) ==
    [span |-> n, name |-> <<n + 10 * run, filename>>]

\* the file save_to_dir leaves in the target directory for document n of
\* the list: the newname when there is one, else the document's own name,
\* which separate_pages numbers by position
SavedFile(n, filename, run) ==
    [span |-> n, name |-> <<n, filename>>]

\* variant of the save loop: the original is removed with the first
\* document saved
SaveToDirUnlinksOriginal(ok) ==
    /\ consume.pc = "saving"
    /\ consume.n < consume.documents
    /\ consume' =
          IF ok
          THEN [consume EXCEPT
                  !.saved = Append(@, NewName(consume.n,
                                              consume.overrides.filename)),
                  !.split = @ \ {consume.n},
                  !.target = @ \cup {SavedFile(consume.n,
                                               consume.overrides.filename,
                                               consume.run)},
                  !.original = FALSE,
                  !.n = @ + 1]
          ELSE [consume EXCEPT !.pc = "done", !.result = "raised",
                               !.error = "save_to_dir"]
    /\ UNCHANGED <<mailVars, attRun, boxRun, dataRun, taskVars>>

\* one iteration of the save loop: save_to_dir, then unlink of the split
\* document; ok: save_to_dir did not raise
SaveToDir(ok) ==
    /\ consume.pc = "saving"
    /\ consume.n < consume.documents
    /\ consume' =
          IF ok
          THEN [consume EXCEPT
                  !.saved = Append(@, NewName(consume.n,
                                              consume.overrides.filename)),
                  !.split = @ \ {consume.n},
                  !.target = @ \cup {SavedFile(consume.n,
                                               consume.overrides.filename,
                                               consume.run)},
                  !.n = @ + 1]
          ELSE [consume EXCEPT !.pc = "done", !.result = "raised",
                               !.error = "save_to_dir"]
    /\ UNCHANGED <<mailVars, attRun, boxRun, dataRun, taskVars>>

\* variant: after the clean-up the task goes on instead of returning
UnlinkOriginalGoesOn ==
    /\ consume.pc = "saving"
    /\ consume.n = consume.documents
    /\ consume' = [consume EXCEPT
          !.original = FALSE,
          !.pdf = IF consume.mime_type = "image/tiff" THEN FALSE ELSE @,
          !.pc = "asn"]
    /\ UNCHANGED <<mailVars, attRun, boxRun, dataRun, taskVars>>

\* after the loop: the original is removed, and the PDF made of a TIFF;
\* the task returns
UnlinkOriginal ==
    /\ consume.pc = "saving"
    /\ consume.n = consume.documents
    /\ consume' = [consume EXCEPT
          !.original = FALSE,
          !.pdf = IF consume.mime_type = "image/tiff" THEN FALSE ELSE @,
          !.pc = "done",
          !.result = "File successfully split"]
    /\ UNCHANGED <<mailVars, attRun, boxRun, dataRun, taskVars>>

\* "if settings.CONSUMER_ENABLE_ASN_BARCODE: overrides.asn = ..."
ReadAsn ==
    /\ consume.pc = "asn"
    /\ consume' =
          IF consume.enable_asn
          THEN [consume EXCEPT !.overrides.asn = consume.asn_barcode,
                               !.asn_read = TRUE, !.pc = "consumer"]
          ELSE [consume EXCEPT !.pc = "consumer"]
    /\ UNCHANGED <<mailVars, attRun, boxRun, dataRun, taskVars>>

\* what Consumer().try_consume_file does: it returns a document, returns
\* None, or raises one of its errors
ConsumerOutcomes ==
    {[kind |-> "document", error |-> ""], [kind |-> "None", error |-> ""],
     [kind |-> "raises", error |-> "ConsumerError: file type not supported"],
     [kind |-> "raises", error |-> "ConsumerError: parser error text"]}

\* the document rows after the Consumer ran: a row is made when it returns
\* a document, none when it fails
ConsumerRows(rows, outcome) ==
    IF outcome.kind = "document" THEN rows + 1 ELSE rows

\* variant: an error of the Consumer is caught and summarized
ConsumeFileReturnSummarizes(outcome) ==
    IF outcome.kind = "document"
    THEN [result |-> "Success", error |-> ""]
    ELSE [result |-> "raised",
          error |-> "ConsumerError: Unknown error: Returned document was null"]

\* how consume_file ends after try_consume_file: "Success. New document id
\* ... created" for a document, ConsumerError for None; an error of the
\* Consumer is not caught
ConsumeFileReturn(outcome) ==
    IF outcome.kind = "document"
    THEN [result |-> "Success", error |-> ""]
    ELSE IF outcome.kind = "None"
    THEN [result |-> "raised",
          error |-> "ConsumerError: Unknown error: Returned document was null"]
    ELSE [result |-> "raised", error |-> outcome.error]

\* Consumer().try_consume_file(original_file, override_...=...) and the end
\* of the task; no document comes of a file that is not there
TryConsumeFile(outcome) ==
    /\ consume.pc = "consumer"
    /\ outcome.kind = "document" => consume.original
    /\ consume' = [consume EXCEPT
          !.consumer = <<consume.overrides>>,
          !.raised = outcome.error,
          !.rows = ConsumerRows(@, outcome),
          !.pc = "done",
          !.result = ConsumeFileReturn(outcome).result,
          !.error = ConsumeFileReturn(outcome).error]
    /\ UNCHANGED <<mailVars, attRun, boxRun, dataRun, taskVars>>

\* the worker stops in the split path: after the scan, after any number of
\* documents saved, or (unlinked) after the original was removed and before
\* the PDF made of a TIFF is
Crash(unlinked) ==
    /\ consume.pc \in {"scanned", "saving"}
    /\ unlinked =>
          (consume.pc = "saving" /\ consume.n = consume.documents)
    /\ consume' = [consume EXCEPT
          !.pc = "crashed",
          !.original = IF unlinked THEN FALSE ELSE @]
    /\ UNCHANGED <<mailVars, attRun, boxRun, dataRun, taskVars>>

\* the same request is run again after a run that raised or stopped: the
\* task begins anew with the arguments it was queued with and the files as
\* they are; an original that is gone shows no barcode
Rerun ==
    /\ \/ consume.pc = "crashed"
       \/ consume.pc = "done" /\ consume.result = "raised"
    /\ consume.run < MaxRuns
    /\ consume' = [consume EXCEPT
          !.pc = "start", !.run = @ + 1,
          !.overrides = consume.given,
          !.separators = (@ /\ consume.original),
          !.asn_barcode = IF consume.original THEN @ ELSE "None",
          !.scanned = FALSE, !.asn_read = FALSE, !.n = 0,
          !.split = {}, !.saved = <<>>, !.save_to_dir = "",
          !.consumer = <<>>, !.result = "", !.raised = "", !.error = "",
          !.before = [original |-> consume.original,
                      target |-> consume.target]]
    /\ UNCHANGED <<mailVars, attRun, boxRun, dataRun, taskVars>>

(* ------------- index and archive tasks (documents/tasks.py) ------------ *)

\* the workers of the task queue, each running one task
Workers == {1, 2}

\* the tasks as they begin. documents: the documents of the batch of
\* bulk_update_documents or in the database for index_reindex;
\* parser_class: get_parser_class_for_mime_type finds one; archive_path:
\* parser.get_archive_path() is set after the parse. sent: post_save
\* signals sent; opened: index writers made; updated: calls of
\* index.update_document; writer: the state of the task's index writer,
\* mode: how the last one was made;
\* row and pending: the committed values of archive checksum, content and
\* archive filename and those written in the open transaction
NewTask(kind, n, class, path) ==
    [kind |-> kind, pc |-> "start", documents |-> n,
     parser_class |-> class, archive_path |-> path,
     sent |-> 0, opened |-> 0, nested |-> FALSE, updated |-> 0,
     writer |-> "none", mode |-> "none", parser |-> FALSE, cleanup |-> 0,
     txn |-> FALSE, row |-> "old", pending |-> "none",
     archive |-> "scratch", thumbnail |-> "scratch",
     update_locked |-> FALSE, move_locked |-> FALSE,
     failed |-> "", logged |-> FALSE, result |-> ""]

NewTasks ==
    {NewTask("index_optimize", 0, TRUE, TRUE)}
    \cup {NewTask(k, n, TRUE, TRUE) :
            k \in {"index_reindex", "bulk_update_documents"},
            n \in 0..MaxBulk}
    \cup {NewTask("update_document_archive_file", 1, c, p) :
            c \in BOOLEAN, p \in BOOLEAN}

\* variant: every AsyncWriter takes the index for itself
AsyncWriterAlwaysDirect(lock) == "direct"

\* AsyncWriter(ix): it holds the write lock of the index when that is free,
\* else it buffers what it is given
AsyncWriterMode(lock) == IF lock = 0 THEN "direct" ELSE "buffered"

\* whether the writer of a task is open on the index
WriterOpen(t) == t.writer \in {"direct", "threadOpen"}

\* a task makes an index writer and goes on at next
OpenWriter(w, next) ==
    LET mode == AsyncWriterMode(locks.writer) IN
    /\ workers' = [workers EXCEPT
          ![w].writer = mode,
          ![w].mode = mode,
          ![w].opened = @ + 1,
          ![w].nested = (@ \/ workers[w].writer \in {"direct", "buffered"}),
          ![w].pc = next]
    /\ locks' = IF mode = "direct" THEN [locks EXCEPT !.writer = w]
                ELSE locks

\* the writer after writer.commit(): a buffering writer hands its buffer to
\* a thread that waits for the lock; ok: the commit of a writer that holds
\* the lock did not raise; held: a commit that raised left the lock taken
Committed(t, ok, held) ==
    IF t.writer = "buffered" THEN "thread"
    ELSE IF ok THEN "committed"
    ELSE IF held THEN "direct" ELSE "released"

\* the write lock after worker w's writer went to state writer
LockAfter(w, writer) ==
    IF locks.writer = w /\ writer \notin {"direct", "threadOpen"}
    THEN [locks EXCEPT !.writer = 0] ELSE locks

\* the thread of a buffering writer gets the write lock
ThreadAcquire(w) ==
    /\ workers # NoRun
    /\ workers[w].writer = "thread"
    /\ locks.writer = 0
    /\ workers' = [workers EXCEPT ![w].writer = "threadOpen"]
    /\ locks' = [locks EXCEPT !.writer = w]
    /\ UNCHANGED <<mailVars, callVars>>

\* the thread writes the buffer, commits and gives the lock back
ThreadCommit(w) ==
    /\ workers # NoRun
    /\ workers[w].writer = "threadOpen"
    /\ workers' = [workers EXCEPT ![w].writer = "committed"]
    /\ locks' = [locks EXCEPT !.writer = 0]
    /\ UNCHANGED <<mailVars, callVars>>

\* index_optimize: writer = AsyncWriter(ix)
IndexOptimize(w) ==
    /\ workers # NoRun
    /\ workers[w].kind = "index_optimize" /\ workers[w].pc = "start"
    /\ OpenWriter(w, "commit")
    /\ UNCHANGED <<mailVars, callVars>>

\* index_reindex, bulk_update_documents: the documents are looked up
QueryDocuments(w) ==
    /\ workers # NoRun
    /\ workers[w].kind \in {"index_reindex", "bulk_update_documents"}
    /\ workers[w].pc = "start"
    /\ workers' = [workers EXCEPT ![w].pc =
          IF workers[w].kind = "bulk_update_documents"
             /\ workers[w].documents > 0
          THEN "signals" ELSE "open"]
    /\ UNCHANGED <<mailVars, callVars, locks>>

\* bulk_update_documents: post_save.send for the next document
PostSaveSend(w) ==
    /\ workers # NoRun
    /\ workers[w].pc = "signals"
    /\ workers' = [workers EXCEPT
          ![w].sent = @ + 1,
          ![w].pc = IF workers[w].sent + 1 = workers[w].documents
                    THEN "open" ELSE "signals"]
    /\ UNCHANGED <<mailVars, callVars, locks>>

\* "with AsyncWriter(ix) as writer:"
OpenBatchWriter(w) ==
    /\ workers # NoRun
    /\ workers[w].pc = "open"
    /\ OpenWriter(w, IF workers[w].documents = 0 THEN "commit"
                     ELSE "updates")
    /\ UNCHANGED <<mailVars, callVars>>

\* variant: a writer of its own is made for every document
UpdateDocumentOwnWriter(w, ok) ==
    /\ workers # NoRun
    /\ workers[w].pc = "updates"
    /\ LET mode == AsyncWriterMode(LockAfter(w, "committed").writer) IN
       /\ workers' = [workers EXCEPT
             ![w].updated = @ + 1,
             ![w].opened = @ + 1,
             ![w].writer = mode,
             ![w].mode = mode,
             ![w].pc = IF workers[w].updated + 1 = workers[w].documents
                       THEN "commit" ELSE "updates"]
       /\ locks' = IF mode = "direct" THEN [locks EXCEPT !.writer = w]
                   ELSE locks
    /\ UNCHANGED <<mailVars, callVars>>

\* index.update_document(writer, doc) in the with block; when it raises
\* the block is left, the writer cancelled, and the task has raised
UpdateDocument(w, ok) ==
    /\ workers # NoRun
    /\ workers[w].pc = "updates"
    /\ IF ok
       THEN /\ workers' = [workers EXCEPT
                  ![w].updated = @ + 1,
                  ![w].pc = IF workers[w].updated + 1 = workers[w].documents
                            THEN "commit" ELSE "updates"]
            /\ UNCHANGED locks
       ELSE /\ workers' = [workers EXCEPT
                  ![w].writer = "cancelled",
                  ![w].failed = "update_document",
                  ![w].result = "raised",
                  ![w].pc = "done"]
            /\ locks' = LockAfter(w, "cancelled")
    /\ UNCHANGED <<mailVars, callVars>>

\* writer.commit() of index_optimize and at the end of the with block of
\* index_reindex and bulk_update_documents; nothing in the task follows a
\* commit that raises
CommitWriter(w, ok, held) ==
    /\ workers # NoRun
    /\ workers[w].pc = "commit"
    /\ (workers[w].writer = "buffered") => (ok /\ ~held)
    /\ held => ~ok
    /\ LET writer == Committed(workers[w], ok, held) IN
       /\ workers' = [workers EXCEPT
             ![w].writer = writer,
             ![w].failed = IF ok THEN @ ELSE "commit",
             ![w].result = IF ok THEN "returned" ELSE "raised",
             ![w].pc = "done"]
       /\ locks' = LockAfter(w, writer)
    /\ UNCHANGED <<mailVars, callVars>>

(* --------------------- update_document_archive_file -------------------- *)

\* variant: the except clause is the end of the task
AfterExceptReturns == "done"

\* where the task goes on after the except clause: the finally clause
AfterExcept == "cleanup"

\* variant: the index writer is opened in the with blocks of the moves
AfterMovesOpensWriter == "index"

\* where the task goes on after the last move: the with blocks are left
AfterMoves == "unlock"

\* variant: what was written in the transaction stays when it is left on
\* an exception
RollbackKeepsUpdate(t) ==
    [t EXCEPT !.txn = FALSE, !.pending = "none",
              !.row = IF t.pending = "none" THEN @ ELSE t.pending]

\* "with transaction.atomic()" left on an exception: what was written in
\* the transaction is undone
Rollback(t) == [t EXCEPT !.txn = FALSE, !.pending = "none"]

\* variant: the error is logged and raised again
ArchiveExceptRaises(t, at) ==
    [t EXCEPT !.failed = at, !.logged = TRUE, !.result = "raised",
              !.pc = AfterExcept]

\* "except Exception: logger.exception(...)" for an error raised at step at
ArchiveExcept(t, at) ==
    [t EXCEPT !.failed = at, !.logged = TRUE, !.pc = AfterExcept]

\* a step of the try block raises: the with blocks the task is in are left,
\* the media lock given back and the transaction rolled back, then the
\* except clause
ArchiveRaise(w, at) ==
    /\ workers' = [workers EXCEPT ![w] =
          ArchiveExcept(IF workers[w].txn THEN Rollback(workers[w])
                        ELSE workers[w], at)]
    /\ locks' = [locks EXCEPT !.media = IF @ = w THEN 0 ELSE @]

\* the task is an update_document_archive_file at position p
ArchiveAt(w, p) ==
    /\ workers # NoRun
    /\ workers[w].kind = "update_document_archive_file"
    /\ workers[w].pc = p

\* variant: the parser is made whatever get_parser_class_for_mime_type gave
GetParserClassUnchecked(w) ==
    /\ ArchiveAt(w, "start")
    /\ workers' = [workers EXCEPT ![w].parser = TRUE, ![w].pc = "parse"]
    /\ UNCHANGED <<mailVars, callVars, locks>>

\* get_parser_class_for_mime_type; without a parser class the task logs an
\* error and returns, else the parser is made
GetParserClass(w) ==
    /\ ArchiveAt(w, "start")
    /\ workers' = [workers EXCEPT ![w] =
          IF workers[w].parser_class
          THEN [@ EXCEPT !.parser = TRUE, !.pc = "parse"]
          ELSE [@ EXCEPT !.logged = TRUE, !.result = "returned",
                         !.pc = "done"]]
    /\ UNCHANGED <<mailVars, callVars, locks>>

\* parser.parse(...)
Parse(w, ok) ==
    /\ ArchiveAt(w, "parse")
    /\ IF ok
       THEN /\ workers' = [workers EXCEPT ![w].pc = "thumbnail"]
            /\ UNCHANGED locks
       ELSE ArchiveRaise(w, "parse")
    /\ UNCHANGED <<mailVars, callVars>>

\* parser.get_thumbnail(...), then "if parser.get_archive_path():"
GetThumbnail(w, ok) ==
    /\ ArchiveAt(w, "thumbnail")
    /\ IF ok
       THEN /\ workers' = [workers EXCEPT ![w].pc =
                  IF workers[w].archive_path THEN "atomic" ELSE "cleanup"]
            /\ UNCHANGED locks
       ELSE ArchiveRaise(w, "get_thumbnail")
    /\ UNCHANGED <<mailVars, callVars>>

\* "with transaction.atomic():"
EnterAtomic(w) ==
    /\ ArchiveAt(w, "atomic")
    /\ workers' = [workers EXCEPT ![w].txn = TRUE, ![w].pc = "checksum"]
    /\ UNCHANGED <<mailVars, callVars, locks>>

\* the checksum of the archive file is read
Checksum(w, ok) ==
    /\ ArchiveAt(w, "checksum")
    /\ IF ok
       THEN /\ workers' = [workers EXCEPT ![w].pc = "update"]
            /\ UNCHANGED locks
       ELSE ArchiveRaise(w, "checksum")
    /\ UNCHANGED <<mailVars, callVars>>

\* generate_unique_filename and Document.objects.filter(pk=...).update(
\* archive_checksum, content, archive_filename)
UpdateRow(w, ok) ==
    /\ ArchiveAt(w, "update")
    /\ IF ok
       THEN /\ workers' = [workers EXCEPT
                  ![w].pending = "new",
                  ![w].update_locked = (locks.media = w),
                  ![w].pc = "filelock"]
            /\ UNCHANGED locks
       ELSE ArchiveRaise(w, "update")
    /\ UNCHANGED <<mailVars, callVars>>

\* "with FileLock(settings.MEDIA_LOCK):" waits until the lock is free
AcquireMediaLock(w) ==
    /\ ArchiveAt(w, "filelock")
    /\ locks.media = 0
    /\ locks' = [locks EXCEPT !.media = w]
    /\ workers' = [workers EXCEPT ![w].pc = "mkdir"]
    /\ UNCHANGED <<mailVars, callVars>>

\* create_source_path_directory(document.archive_path)
CreateSourcePathDirectory(w, ok) ==
    /\ ArchiveAt(w, "mkdir")
    /\ IF ok
       THEN /\ workers' = [workers EXCEPT ![w].pc = "move_archive"]
            /\ UNCHANGED locks
       ELSE ArchiveRaise(w, "create_source_path_directory")
    /\ UNCHANGED <<mailVars, callVars>>

\* shutil.move(parser.get_archive_path(), document.archive_path)
MoveArchive(w, ok) ==
    /\ ArchiveAt(w, "move_archive")
    /\ IF ok
       THEN /\ workers' = [workers EXCEPT
                  ![w].archive = "in place",
                  ![w].move_locked = (locks.media = w),
                  ![w].pc = "move_thumbnail"]
            /\ UNCHANGED locks
       ELSE ArchiveRaise(w, "move archive")
    /\ UNCHANGED <<mailVars, callVars>>

\* shutil.move(thumbnail, document.thumbnail_path)
MoveThumbnail(w, ok) ==
    /\ ArchiveAt(w, "move_thumbnail")
    /\ IF ok
       THEN /\ workers' = [workers EXCEPT
                  ![w].thumbnail = "in place",
                  ![w].pc = AfterMoves]
            /\ UNCHANGED locks
       ELSE ArchiveRaise(w, "move thumbnail")
    /\ UNCHANGED <<mailVars, callVars>>

\* the FileLock block is left
ReleaseMediaLock(w) ==
    /\ ArchiveAt(w, "unlock")
    /\ locks' = [locks EXCEPT !.media = 0]
    /\ workers' = [workers EXCEPT ![w].pc = "commit_txn"]
    /\ UNCHANGED <<mailVars, callVars>>

\* the atomic block is left: the transaction commits
CommitTransaction(w) ==
    /\ ArchiveAt(w, "commit_txn")
    /\ workers' = [workers EXCEPT
          ![w].row = workers[w].pending,
          ![w].pending = "none",
          ![w].txn = FALSE,
          ![w].pc = "index"]
    /\ UNCHANGED <<mailVars, callVars, locks>>

\* "with index.open_index_writer() as writer:"
OpenIndexWriter(w) ==
    /\ ArchiveAt(w, "index")
    /\ OpenWriter(w, "update_index")
    /\ UNCHANGED <<mailVars, callVars>>

\* index.update_document(writer, document); when it raises the writer is
\* given back and the error reaches the except clause
UpdateIndex(w, ok) ==
    /\ ArchiveAt(w, "update_index")
    /\ IF ok
       THEN /\ workers' = [workers EXCEPT
                  ![w].updated = @ + 1,
                  ![w].pc = "commit_index"]
            /\ UNCHANGED locks
       ELSE /\ workers' = [workers EXCEPT ![w] =
                  ArchiveExcept([@ EXCEPT !.writer = "cancelled"],
                                "update_document")]
            /\ locks' = LockAfter(w, "cancelled")
    /\ UNCHANGED <<mailVars, callVars>>

\* the open_index_writer block is left: the writer commits and is given
\* back whether or not the commit raises
CommitIndex(w, ok) ==
    /\ ArchiveAt(w, "commit_index")
    /\ (workers[w].writer = "buffered") => ok
    /\ LET writer == Committed(workers[w], ok, FALSE) IN
       /\ workers' = [workers EXCEPT ![w] =
             IF ok THEN [@ EXCEPT !.writer = writer, !.pc = "cleanup"]
             ELSE ArchiveExcept([@ EXCEPT !.writer = writer], "commit")]
       /\ locks' = LockAfter(w, writer)
    /\ UNCHANGED <<mailVars, callVars>>

\* "finally: parser.cleanup()", and the task returns
Cleanup(w) ==
    /\ ArchiveAt(w, "cleanup")
    /\ workers' = [workers EXCEPT
          ![w].cleanup = @ + 1,
          ![w].result = IF @ = "" THEN "returned" ELSE @,
          ![w].pc = "done"]
    /\ UNCHANGED <<mailVars, callVars, locks>>

(* ------------------- documents/data_models.py --------------------------- *)

\* an Optional[...] value: <<>> is None, <<v>> is the value v
Optional(S) == {<<>>} \cup {<<v>> : v \in S}

\* datetime.datetime values: the wall clock to the second, the microsecond
\* and the UTC offset ("" on a naive datetime)
Datetimes ==
    [second : {"2023-01-02T03:04:05"}, microsecond : {0, 6},
     utcoffset : {"", "+01:00"}]

\* datetime.isoformat(): the microsecond is written only when it is not 0,
\* the offset only on an aware datetime
IsoFormat(dt) ==
    <<dt.second>>
        \o (IF dt.microsecond = 0 THEN <<>> ELSE <<".000006">>)
        \o (IF dt.utcoffset = "" THEN <<>> ELSE <<dt.utcoffset>>)

\* dateutil.parser.isoparse(): a missing fraction reads as microsecond 0,
\* a missing offset as a naive datetime
IsoParse(str) ==
    [second |-> str[1],
     microsecond |-> IF \E i \in DOMAIN str : str[i] = ".000006" THEN 6 ELSE 0,
     utcoffset |-> IF \E i \in DOMAIN str : str[i] = "+01:00"
                   THEN "+01:00" ELSE ""]

\* the dataclass with its defaults: every field None
DefaultOverrides ==
    [filename |-> <<>>, title |-> <<>>, correspondent_id |-> <<>>,
     document_type_id |-> <<>>, tag_ids |-> <<>>, created |-> <<>>,
     asn |-> <<>>, owner_id |-> <<>>]

\* the overrides followed: present-but-empty values ("", an empty tag list,
\* 0) beside unset and ordinary ones
DocumentMetadataOverrides ==
    [filename : Optional({"", "scan.pdf"}),
     title : Optional({""}),
     correspondent_id : Optional({0}),
     document_type_id : Optional({3}),
     tag_ids : Optional({<<>>, <<1, 2>>}),
     created : Optional(Datetimes),
     asn : Optional({0, 7}),
     owner_id : Optional({0})]

\* as_dict with every field tested for truth, as created is
OverridesAsDictByTruth(o) ==
    LET Text(f) == IF f = <<"">> THEN <<>> ELSE f
        Number(f) == IF f = <<0>> THEN <<>> ELSE f
        List(f) == IF f # <<>> /\ Len(f[1]) = 0 THEN <<>> ELSE f
    IN  [filename |-> Text(o.filename),
         title |-> Text(o.title),
         correspondent_id |-> Number(o.correspondent_id),
         document_type_id |-> Number(o.document_type_id),
         archive_serial_num |-> Number(o.asn),
         tag_ids |-> List(o.tag_ids),
         created |-> IF o.created # <<>>
                     THEN <<IsoFormat(o.created[1])>> ELSE <<>>,
         owner_id |-> Number(o.owner_id)]

\* DocumentMetadataOverrides.as_dict: asn goes under "archive_serial_num",
\* created as its ISO string (a datetime is always true)
OverridesAsDict(o) ==
    [filename |-> o.filename,
     title |-> o.title,
     correspondent_id |-> o.correspondent_id,
     document_type_id |-> o.document_type_id,
     archive_serial_num |-> o.asn,
     tag_ids |-> o.tag_ids,
     created |-> IF o.created # <<>>
                 THEN <<IsoFormat(o.created[1])>> ELSE <<>>,
     owner_id |-> o.owner_id]

\* DocumentMetadataOverrides.from_dict(data): data is <<>> for None; the
\* created string is parsed when it is not empty
OverridesFromDict(data) ==
    IF data = <<>>
    THEN DefaultOverrides
    ELSE LET d == data[1]
         IN  [filename |-> d.filename,
              title |-> d.title,
              correspondent_id |-> d.correspondent_id,
              document_type_id |-> d.document_type_id,
              tag_ids |-> d.tag_ids,
              created |-> IF d.created # <<>> /\ Len(d.created[1]) > 0
                          THEN <<IsoParse(d.created[1])>> ELSE <<>>,
              asn |-> d.archive_serial_num,
              owner_id |-> d.owner_id]

\* class DocumentSource(enum.IntEnum)
DocumentSource == {"CONSUME_FOLDER", "API_UPLOAD", "MAIL_FETCH"}

\* int(source): enum.auto() numbers the members from 1
SourceInt(source) ==
    CASE source = "CONSUME_FOLDER" -> 1
      [] source = "API_UPLOAD" -> 2
      [] source = "MAIL_FETCH" -> 3

\* DocumentSource(value)
SourceOf(value) == CHOOSE source \in DocumentSource : SourceInt(source) = value

\* the working directory of the process, and the directory /link, a
\* symbolic link to /consume
Cwd == <<"consume">>

\* pathlib paths: the anchor ("/" on an absolute path) and the components
Paths ==
    {[anchor |-> "", parts |-> <<"scan.pdf">>],
     [anchor |-> "/", parts |-> <<"consume", "scan.pdf">>],
     [anchor |-> "/", parts |-> <<"link", "scan.pdf">>]}

\* Path.resolve(): the path made absolute from the working directory,
\* symbolic links followed
Resolve(path) ==
    LET parts == IF path.anchor = "/" THEN path.parts ELSE Cwd \o path.parts
    IN  [anchor |-> "/",
         parts |-> IF parts[1] = "link"
                   THEN <<"consume">> \o Tail(parts) ELSE parts]

\* str(path): the components joined by separators after the anchor
RECURSIVE Joined(_)
Joined(parts) ==
    IF Len(parts) <= 1 THEN parts
    ELSE <<Head(parts), "/">> \o Joined(Tail(parts))

Str(path) ==
    (IF path.anchor = "/" THEN <<"/">> ELSE <<>>) \o Joined(path.parts)

\* Path(str)
PathOf(str) ==
    [anchor |-> IF str # <<>> /\ str[1] = "/" THEN "/" ELSE "",
     parts |-> SelectSeq(str, LAMBDA c : c # "/")]

\* the types magic.from_file reads from the file
MimeTypes == {"application/pdf", "image/tiff"}

\* __post_init__ reading the file every time
PostInitAlwaysInspects(args, file) ==
    [source |-> args.source,
     original_file |-> Resolve(args.original_file),
     mime_type |-> <<file>>]

\* ConsumableDocument(...) with __post_init__: the path resolved, the mime
\* type read from the file when none was passed
PostInit(args, file) ==
    [source |-> args.source,
     original_file |-> Resolve(args.original_file),
     mime_type |-> IF args.mime_type = <<>> THEN <<file>> ELSE args.mime_type]

\* magic.from_file calls one construction makes
Inspections(args) == IF args.mime_type = <<>> THEN 1 ELSE 0

\* ConsumableDocument.as_dict
DocumentAsDict(o) ==
    [source |-> SourceInt(o.source),
     original_file |-> Str(o.original_file),
     mime_type |-> o.mime_type]

\* the constructor arguments ConsumableDocument.from_dict passes
DocumentFromDict(data) ==
    [source |-> SourceOf(data.source),
     original_file |-> PathOf(data.original_file),
     mime_type |-> data.mime_type]

\* the descriptors followed, from construction to the rebuilt object; an
\* overrides run may start from a task queued without overrides (data None)
DataRuns ==
    {[kind |-> "overrides", pc |-> "constructed", o |-> o, data |-> <<>>,
      rebuilt |-> DefaultOverrides] : o \in DocumentMetadataOverrides}
    \cup
    {[kind |-> "overrides", pc |-> "serialized", o |-> DefaultOverrides,
      data |-> <<>>, rebuilt |-> DefaultOverrides]}
    \cup
    {[kind |-> "document", pc |-> "args",
      args |-> [source |-> source, original_file |-> path,
                mime_type |-> mime],
      file |-> file, inspected |-> 0] :
        source \in DocumentSource, path \in Paths,
        mime \in Optional(MimeTypes \cup {""}), file \in MimeTypes}

\* overrides.as_dict() when a task is queued
SerializeOverrides ==
    /\ dataRun.pc = "constructed"
    /\ dataRun.kind = "overrides"
    /\ dataRun' = [dataRun EXCEPT !.pc = "serialized",
                                  !.data = <<OverridesAsDict(dataRun.o)>>]
    /\ UNCHANGED <<mailVars, attRun, boxRun, consume, taskVars>>

\* DocumentMetadataOverrides.from_dict(...) in the task
RebuildOverrides ==
    /\ dataRun.pc = "serialized"
    /\ dataRun.kind = "overrides"
    /\ dataRun' = [dataRun EXCEPT !.pc = "rebuilt",
                                  !.rebuilt = OverridesFromDict(dataRun.data)]
    /\ UNCHANGED <<mailVars, attRun, boxRun, consume, taskVars>>

\* ConsumableDocument(source, original_file, mime_type)
ConstructDocument ==
    /\ dataRun.pc = "args"
    /\ dataRun' =
          [kind |-> "document", pc |-> "constructed", args |-> dataRun.args,
           file |-> dataRun.file,
           inspected |-> Inspections(dataRun.args),
           o |-> PostInit(dataRun.args, dataRun.file)]
    /\ UNCHANGED <<mailVars, attRun, boxRun, consume, taskVars>>

\* input_doc.as_dict() when a task is queued
SerializeDocument ==
    /\ dataRun.pc = "constructed"
    /\ dataRun.kind = "document"
    /\ dataRun' =
          [kind |-> "document", pc |-> "serialized", args |-> dataRun.args,
           file |-> dataRun.file, inspected |-> dataRun.inspected,
           o |-> dataRun.o, data |-> DocumentAsDict(dataRun.o)]
    /\ UNCHANGED <<mailVars, attRun, boxRun, consume, taskVars>>

\* the file is rewritten while the task waits in the queue
FileChanges(type) ==
    /\ dataRun.pc = "serialized"
    /\ dataRun.kind = "document"
    /\ dataRun.file # type
    /\ dataRun' = [dataRun EXCEPT !.file = type]
    /\ UNCHANGED <<mailVars, attRun, boxRun, consume, taskVars>>

\* ConsumableDocument.from_dict(...) in the task
RebuildDocument ==
    /\ dataRun.pc = "serialized"
    /\ dataRun.kind = "document"
    /\ LET args == DocumentFromDict(dataRun.data)
       IN  dataRun' =
              [kind |-> "document", pc |-> "rebuilt", args |-> dataRun.args,
               file |-> dataRun.file,
               inspected |-> dataRun.inspected + Inspections(args),
               o |-> dataRun.o, data |-> dataRun.data,
               rebuilt |-> PostInit(args, dataRun.file)]
    /\ UNCHANGED <<mailVars, attRun, boxRun, consume, taskVars>>

(* --------------------------- TagMailAction ------------------------------ *)

\* action parameters of TAG rules, as sequences of words, ":" and " "
TagParameters ==
    {<<>>,
     <<"processed">>,
     <<"apple", ":", "green">>,
     <<"Apple", ":", "Green">>,
     <<"apple", ":", " ", "green">>,
     <<"apple", ":", "black">>,
     <<"apple", ":">>,
     <<"pineapple", ":", "green">>,
     <<"apple", ":", "green", ":", "x">>}

\* str.lower() on a word
LowerWord(w) ==
    IF w = "Apple" THEN "apple" ELSE IF w = "Green" THEN "green" ELSE w

\* "apple:" in parameter.lower(): the text may stand anywhere in it
ContainsApple(parameter) ==
    \E i \in 1..(Len(parameter) - 1) :
        /\ LowerWord(parameter[i]) \in {"apple", "pineapple"}
        /\ parameter[i + 1] = ":"

\* parameter.split(":"): the pieces between the colons
RECURSIVE Split(_)
Split(str) ==
    IF \A i \in DOMAIN str : str[i] # ":" THEN <<str>>
    ELSE LET i == CHOOSE k \in DOMAIN str :
                     str[k] = ":" /\ \A j \in 1..(k - 1) : str[j] # ":"
         IN  <<SubSeq(str, 1, i - 1)>> \o Split(SubSeq(str, i + 1, Len(str)))

\* str.strip(), the text that is left as one word ("" when nothing is left)
Strip(str) ==
    LET words == SelectSeq(str, LAMBDA w : w # " ")
    IN  IF words = <<>> THEN "" ELSE words[1]

\* the keys of APPLE_MAIL_TAG_COLORS
AppleMailTagColors ==
    {"red", "orange", "yellow", "blue", "green", "violet", "grey"}

\* TagMailAction(parameter): the exception raised ("none" when the action
\* was built) and the two attributes, <<>> for None
TagMailAction(parameter) ==
    IF ContainsApple(parameter)
    THEN IF Len(Split(parameter)) # 2
         THEN [raised |-> "ValueError", color |-> <<>>, keyword |-> <<>>]
         ELSE LET color == Strip(Split(parameter)[2])
              IN  IF LowerWord(color) \notin AppleMailTagColors
                  THEN [raised |-> "MailError", color |-> <<color>>,
                        keyword |-> <<>>]
                  ELSE [raised |-> "none", color |-> <<color>>,
                        keyword |-> <<>>]
    ELSE [raised |-> "none", color |-> <<>>, keyword |-> <<parameter>>]

\* TagMailAction.get_criteria: the keys of the query, or the exception
TagGetCriteria(action) ==
    IF action.color # <<>> /\ action.color[1] # ""
    THEN [raised |-> "none", keys |-> {"flagged"}]
    ELSE IF action.keyword # <<>> /\ action.keyword[1] # <<>>
    THEN [raised |-> "none", keys |-> {"not_gmail_label", "no_keyword"}]
    ELSE [raised |-> "ValueError", keys |-> {}]

\* the messages an action is applied to
TagMessages ==
    [flagged : BOOLEAN,
     bits : {{}, {"$MailFlagBit2"}},
     keywords : {{}},
     gmail_labels : {{}}]

\* TagMailAction.post_consume on a message; gmail: M._host ends in
\* gmail.com or googlemail.com; refused: the server or the client library
\* raises on a value of None (the label None on such a host, the flags None
\* of a colour that is no key of APPLE_MAIL_TAG_COLORS as it is written)
TagPostConsume(action, gmail, msg, refused) ==
    IF gmail
    THEN IF action.keyword = <<>>
         THEN [raised |-> refused, msg |-> msg]
         ELSE [raised |-> FALSE,
               msg |-> [msg EXCEPT !.gmail_labels = @ \cup {action.keyword[1]}]]
    ELSE IF action.color # <<>> /\ action.color[1] # ""
    THEN LET unset == [msg EXCEPT !.bits = @ \ AllAppleMailFlagBits]
         IN  IF action.color[1] \notin AppleMailTagColors
             THEN IF refused THEN [raised |-> TRUE, msg |-> unset]
                  ELSE [raised |-> FALSE,
                        msg |-> [unset EXCEPT !.flagged = TRUE]]
             ELSE [raised |-> FALSE,
                   msg |-> [unset EXCEPT
                               !.bits = @ \cup AppleMailFlagBits(action.color[1]),
                               !.flagged = TRUE]]
    ELSE IF action.keyword # <<>> /\ action.keyword[1] # <<>>
    THEN [raised |-> FALSE,
          msg |-> [msg EXCEPT !.keywords = @ \cup {action.keyword[1]}]]
    ELSE [raised |-> TRUE, msg |-> msg]

\* the actions followed: built from a parameter, asked for their criteria
\* and applied to a message on a host
TagRuns ==
    {[kind |-> "tag", pc |-> "parameter", parameter |-> parameter,
      gmail |-> gmail, before |-> msg] :
        parameter \in TagParameters, gmail \in BOOLEAN, msg \in TagMessages}

\* get_rule_action(rule): TagMailAction(parameter=rule.action_parameter)
ConstructTagAction ==
    /\ dataRun.pc = "parameter"
    /\ LET action == TagMailAction(dataRun.parameter)
       IN  dataRun' =
              [kind |-> "tag",
               pc |-> IF action.raised = "none" THEN "constructed"
                      ELSE "raised",
               parameter |-> dataRun.parameter, gmail |-> dataRun.gmail,
               before |-> dataRun.before, action |-> action]
    /\ UNCHANGED <<mailVars, attRun, boxRun, consume, taskVars>>

\* make_criterias: get_rule_action(rule).get_criteria()
TagCriteria ==
    /\ dataRun.pc = "constructed"
    /\ dataRun' =
          [kind |-> "tag", pc |-> "criteria",
           parameter |-> dataRun.parameter, gmail |-> dataRun.gmail,
           before |-> dataRun.before, action |-> dataRun.action,
           criteria |-> TagGetCriteria(dataRun.action)]
    /\ UNCHANGED <<mailVars, attRun, boxRun, consume, taskVars>>

\* apply_mail_action: action.post_consume(M, message_uid, parameter)
TagApply(refused) ==
    /\ dataRun.pc = "criteria"
    /\ dataRun' =
          [kind |-> "tag", pc |-> "applied",
           parameter |-> dataRun.parameter, gmail |-> dataRun.gmail,
           before |-> dataRun.before, action |-> dataRun.action,
           criteria |-> dataRun.criteria,
           applied |-> TagPostConsume(dataRun.action, dataRun.gmail,
                                      dataRun.before, refused)]
    /\ UNCHANGED <<mailVars, attRun, boxRun, consume, taskVars>>

(* ----------------- _handle_mail_rule: folder selection ------------------ *)

\* the rules of the account in their order, and for each the messages its
\* folder holds
RuleOrder == <<1, 2>>
FolderSizes == 0..MaxAttachments

\* the exception that leaves _handle_mail_rule when the listing raised too
RaisedAfterListingUnswallowed(ok) == IF ok THEN "MailError" ELSE "Exception"

\* the exception that leaves _handle_mail_rule after the folder listing:
\* MailError, whether the listing succeeded or raised
RaisedAfterListing(ok) == "MailError"

\* the rule loop of handle_mail_account over an account whose folders may
\* be missing; per rule: listings counts the M.folder.list() calls, fetches
\* the M.fetch calls, handled the _handle_message calls, raised is the
\* exception that left _handle_mail_rule, logged the errors logged
RuleRuns ==
    {[kind |-> "rules", pc |-> "select", queue |-> RuleOrder,
      exists |-> exists, size |-> size,
      listings |-> [r \in Rules |-> 0], fetches |-> [r \in Rules |-> 0],
      pending |-> 0, handled |-> [r \in Rules |-> 0],
      raised |-> [r \in Rules |-> "none"],
      logged |-> [r \in Rules |-> 0]] :
        exists \in [Rules -> BOOLEAN], size \in [Rules -> FolderSizes]}

\* the rule under way
RuleAt == Head(dataRun.queue)

\* the rule loop goes on with the next rule, or the loop is over
RuleDone(run) ==
    [run EXCEPT !.queue = Tail(@),
                !.pc = IF Tail(run.queue) = <<>> THEN "done" ELSE "select"]

\* M.folder.set(rule.folder): selected, or MailboxFolderSelectError, which
\* is logged
SelectFolder ==
    /\ dataRun.pc = "select"
    /\ dataRun' =
          IF dataRun.exists[RuleAt]
          THEN [dataRun EXCEPT !.pc = "fetch"]
          ELSE [dataRun EXCEPT !.pc = "listing", !.logged[RuleAt] = @ + 1]
    /\ UNCHANGED <<mailVars, attRun, boxRun, consume, taskVars>>

\* for folder_info in M.folder.list(): the listing is logged, or its
\* exception is; then MailError is raised, which the rule loop catches
\* and logs
ListFolders(ok) ==
    /\ dataRun.pc = "listing"
    /\ dataRun' =
          RuleDone([dataRun EXCEPT
              !.listings[RuleAt] = @ + 1,
              !.logged[RuleAt] = @ + (IF ok THEN 0 ELSE 1) + 1,
              !.raised[RuleAt] = RaisedAfterListing(ok)])
    /\ UNCHANGED <<mailVars, attRun, boxRun, consume, taskVars>>

\* M.fetch(criteria=...): the messages of the folder, or MailError
FetchMessages(ok) ==
    /\ dataRun.pc = "fetch"
    /\ dataRun' =
          IF ~ok
          THEN RuleDone([dataRun EXCEPT
                   !.fetches[RuleAt] = @ + 1,
                   !.raised[RuleAt] = "MailError",
                   !.logged[RuleAt] = @ + 1])
          ELSE IF dataRun.size[RuleAt] = 0
          THEN RuleDone([dataRun EXCEPT !.fetches[RuleAt] = @ + 1])
          ELSE [dataRun EXCEPT !.fetches[RuleAt] = @ + 1,
                               !.pending = dataRun.size[RuleAt],
                               !.pc = "messages"]
    /\ UNCHANGED <<mailVars, attRun, boxRun, consume, taskVars>>

\* one iteration of the message loop: _handle_message is called (what it
\* queues is followed in HandleMessage)
LoopMessage ==
    /\ dataRun.pc = "messages"
    /\ LET run == [dataRun EXCEPT !.handled[RuleAt] = @ + 1,
                                  !.pending = @ - 1]
       IN  dataRun' = IF run.pending = 0 THEN RuleDone(run) ELSE run
    /\ UNCHANGED <<mailVars, attRun, boxRun, consume, taskVars>>

(* -------------------------- _get_correspondent -------------------------- *)

\* MailRule.CorrespondentSource, and a value that is none of its members
CorrespondentSource ==
    {"FROM_NOTHING", "FROM_EMAIL", "FROM_NAME", "FROM_CUSTOM", "UNKNOWN"}

\* what Correspondent.objects.get_or_create does: it returns the row, raises
\* DatabaseError, or raises an exception of another class
GetOrCreateOutcomes == {"row", "DatabaseError", "Exception"}

\* the primary key of the correspondent of a name
CorrespondentId(name) == IF name = "amazon@amazon.de" THEN 1 ELSE 2

\* variant of _correspondent_from_name: DatabaseError is not caught
CorrespondentFromNameUncaught(name, outcome) ==
    IF outcome = "row"
    THEN [raised |-> "none", correspondent |-> <<CorrespondentId(name)>>,
          logged |-> FALSE]
    ELSE [raised |-> outcome, correspondent |-> <<>>, logged |-> FALSE]

\* _correspondent_from_name: the row of get_or_create; a DatabaseError is
\* logged and None returned, any other exception leaves the method
CorrespondentFromName(name, outcome) ==
    IF outcome = "row"
    THEN [raised |-> "none", correspondent |-> <<CorrespondentId(name)>>,
          logged |-> FALSE]
    ELSE IF outcome = "DatabaseError"
    THEN [raised |-> "none", correspondent |-> <<>>, logged |-> TRUE]
    ELSE [raised |-> outcome, correspondent |-> <<>>, logged |-> FALSE]

\* _get_correspondent(message, rule)
GetCorrespondent(message, rule, outcome) ==
    IF rule.assign_correspondent_from = "FROM_NOTHING"
    THEN [raised |-> "none", correspondent |-> <<>>, logged |-> FALSE]
    ELSE IF rule.assign_correspondent_from = "FROM_EMAIL"
    THEN CorrespondentFromName(message.from_, outcome)
    ELSE IF rule.assign_correspondent_from = "FROM_NAME"
    THEN IF message.from_values # <<>> /\ message.from_values[1] # ""
         THEN CorrespondentFromName(message.from_values[1], outcome)
         ELSE CorrespondentFromName(message.from_, outcome)
    ELSE IF rule.assign_correspondent_from = "FROM_CUSTOM"
    THEN [raised |-> "none", correspondent |-> rule.assign_correspondent,
          logged |-> FALSE]
    ELSE [raised |-> "NotImplementedError", correspondent |-> <<>>,
          logged |-> FALSE]

\* the overrides of the requests _process_eml and _process_attachments
\* queue for the message: correspondent.id if correspondent else None
CorrespondentOverrides(rule, supported, correspondent) ==
    (IF ScopeHasEml(rule.consumption_scope)
     THEN <<[kind |-> "eml", correspondent_id |-> correspondent]>> ELSE <<>>)
    \o (IF ScopeHasAttachments(rule.consumption_scope) /\ supported
        THEN <<[kind |-> "att", correspondent_id |-> correspondent]>>
        ELSE <<>>)

\* the messages handled: a message with one attachment under a rule
CorrespondentRuns ==
    {[kind |-> "correspondent", pc |-> "handle",
      message |-> [from_ |-> "amazon@amazon.de", from_values |-> name],
      rule |-> [assign_correspondent_from |-> c_from,
                assign_correspondent |-> custom,
                consumption_scope |-> scope],
      supported |-> supported] :
        name \in Optional({"", "Amazon"}),
        c_from \in CorrespondentSource,
        custom \in Optional({3}),
        scope \in ConsumptionScope,
        supported \in BOOLEAN}

\* _handle_message up to "correspondent = self._get_correspondent(...)"
DeriveCorrespondent(outcome) ==
    /\ dataRun.pc = "handle"
    /\ LET derived == GetCorrespondent(dataRun.message, dataRun.rule, outcome)
       IN  dataRun' =
              [kind |-> "correspondent",
               pc |-> IF derived.raised = "none" THEN "derived" ELSE "raised",
               message |-> dataRun.message, rule |-> dataRun.rule,
               supported |-> dataRun.supported,
               outcome |-> outcome, derived |-> derived]
    /\ UNCHANGED <<mailVars, attRun, boxRun, consume, taskVars>>

\* the rest of _handle_message: the requests queued with their overrides
QueueWithCorrespondent ==
    /\ dataRun.pc = "derived"
    /\ dataRun' =
          [kind |-> "correspondent", pc |-> "queued",
           message |-> dataRun.message, rule |-> dataRun.rule,
           supported |-> dataRun.supported,
           outcome |-> dataRun.outcome, derived |-> dataRun.derived,
           requests |-> CorrespondentOverrides(dataRun.rule,
                            dataRun.supported, dataRun.derived.correspondent)]
    /\ UNCHANGED <<mailVars, attRun, boxRun, consume, taskVars>>

(* --------------------------- specifications ---------------------------- *)

Tasks ==
    \/ \E k \in 1..MaxBatches, ok \in BOOLEAN : ConsumeFile(k, ok)
    \/ \E k \in 1..MaxBatches, actionOk \in BOOLEAN : ApplyMailAction(k, actionOk)
    \/ \E k \in 1..MaxBatches : ErrorCallback(k)

Next ==
    \/ \E primary \in PrimaryOutcomes, alternate \in AlternateOutcomes :
          Login(primary, alternate)
    \/ RaiseMailError
    \/ StartRun
    \/ ReturnTotal
    \/ FolderError
    \/ FetchError
    \/ HandleMailRule
    \/ SkipProcessed
    \/ \E fail \in FailPoints : HandleMessage(fail)
    \/ Tasks

Spec == Init /\ [][Next]_vars

\* queued tasks are eventually run by a worker
FairSpec == Spec /\ WF_vars(Tasks)

\* no account run under way and nothing queued
MailIdle ==
    /\ rules = (CHOOSE a \in Accounts : TRUE).rules
    /\ attachments = (CHOOSE a \in Accounts : TRUE).attachments
    /\ mailbox = [u \in Uids |-> [present |-> TRUE, seen |-> FALSE]]
    /\ ledger = EmptyBag
    /\ pc = "idle"
    /\ ruleQueue = <<>>
    /\ messages = <<>>
    /\ evaluated = <<>>
    /\ total_processed_files = 0
    /\ handled = NoCall
    /\ batches = <<>>
    /\ login = NoLogin

\* no index or archive task is under way
NoTasks ==
    /\ workers = NoRun
    /\ locks = NoLocks

\* _process_attachments on its own
AttachmentInit ==
    /\ MailIdle
    /\ dataRun = NoRun
    /\ NoTasks
    /\ attRun \in AttachmentCalls
    /\ boxRun = NoRun
    /\ consume = NoRun

AttachmentNext == AttachmentLoop \/ AttachmentsReturn

AttachmentSpec == AttachmentInit /\ [][AttachmentNext]_vars

\* a rule's fetch and mail actions on a mailbox, on their own
BoxInit ==
    /\ MailIdle
    /\ dataRun = NoRun
    /\ NoTasks
    /\ attRun = NoRun
    /\ boxRun \in {b \in BoxRuns : b.gmail => b.rule.action = "TAG"}
    /\ consume = NoRun

BoxNext ==
    \/ BoxFetch
    \/ \E S \in SUBSET Uids : BoxQueue(S)
    \/ \E u \in Uids : BoxApply(u)
    \/ \E u \in Uids : BoxApplyRaises(u)

BoxSpec == BoxInit /\ [][BoxNext]_vars

\* a consume_file task on its own
ConsumeInit ==
    /\ MailIdle
    /\ dataRun = NoRun
    /\ NoTasks
    /\ attRun = NoRun
    /\ boxRun = NoRun
    /\ consume \in ConsumeTasks

ConsumeNext ==
    \/ ScanFileForBarcodes
    \/ SkipBarcodes
    \/ SeparatePages
    \/ NoSplit
    \/ \E ok \in BOOLEAN : SaveToDir(ok)
    \/ UnlinkOriginal
    \/ ReadAsn
    \/ \E outcome \in ConsumerOutcomes : TryConsumeFile(outcome)

ConsumeSpec == ConsumeInit /\ [][ConsumeNext]_vars

\* a consume_file request, run again after the runs that failed
RerunNext ==
    \/ ConsumeNext
    \/ \E unlinked \in BOOLEAN : Crash(unlinked)
    \/ Rerun

RerunSpec == ConsumeInit /\ [][RerunNext]_vars

\* index and archive tasks on the workers, in any interleaving
TaskInit ==
    /\ MailIdle
    /\ dataRun = NoRun
    /\ attRun = NoRun
    /\ boxRun = NoRun
    /\ consume = NoRun
    /\ workers \in [Workers -> NewTasks]
    /\ locks = NoLocks

TaskNext ==
    \E w \in Workers :
        \/ IndexOptimize(w)
        \/ QueryDocuments(w)
        \/ PostSaveSend(w)
        \/ OpenBatchWriter(w)
        \/ \E ok \in BOOLEAN : UpdateDocument(w, ok)
        \/ \E ok, held \in BOOLEAN : CommitWriter(w, ok, held)
        \/ ThreadAcquire(w)
        \/ ThreadCommit(w)
        \/ GetParserClass(w)
        \/ \E ok \in BOOLEAN : Parse(w, ok)
        \/ \E ok \in BOOLEAN : GetThumbnail(w, ok)
        \/ EnterAtomic(w)
        \/ \E ok \in BOOLEAN : Checksum(w, ok)
        \/ \E ok \in BOOLEAN : UpdateRow(w, ok)
        \/ AcquireMediaLock(w)
        \/ \E ok \in BOOLEAN : CreateSourcePathDirectory(w, ok)
        \/ \E ok \in BOOLEAN : MoveArchive(w, ok)
        \/ \E ok \in BOOLEAN : MoveThumbnail(w, ok)
        \/ ReleaseMediaLock(w)
        \/ CommitTransaction(w)
        \/ OpenIndexWriter(w)
        \/ \E ok \in BOOLEAN : UpdateIndex(w, ok)
        \/ \E ok \in BOOLEAN : CommitIndex(w, ok)
        \/ Cleanup(w)

TaskSpec == TaskInit /\ [][TaskNext]_vars

\* descriptors alone: built, serialized and rebuilt
DataInit ==
    /\ MailIdle
    /\ NoTasks
    /\ attRun = NoRun
    /\ boxRun = NoRun
    /\ consume = NoRun
    /\ dataRun \in DataRuns

DataNext ==
    \/ SerializeOverrides
    \/ RebuildOverrides
    \/ ConstructDocument
    \/ SerializeDocument
    \/ \E type \in MimeTypes : FileChanges(type)
    \/ RebuildDocument

DataSpec == DataInit /\ [][DataNext]_vars

\* TAG actions alone: built, queried and applied
TagInit ==
    /\ MailIdle
    /\ NoTasks
    /\ attRun = NoRun
    /\ boxRun = NoRun
    /\ consume = NoRun
    /\ dataRun \in TagRuns

TagNext ==
    \/ ConstructTagAction
    \/ TagCriteria
    \/ \E refused \in BOOLEAN : TagApply(refused)

TagSpec == TagInit /\ [][TagNext]_vars

\* the rule loop alone, over folders that may be missing
RuleInit ==
    /\ MailIdle
    /\ NoTasks
    /\ attRun = NoRun
    /\ boxRun = NoRun
    /\ consume = NoRun
    /\ dataRun \in RuleRuns

RuleNext ==
    \/ SelectFolder
    \/ \E ok \in BOOLEAN : ListFolders(ok)
    \/ \E ok \in BOOLEAN : FetchMessages(ok)
    \/ LoopMessage

RuleSpec == RuleInit /\ [][RuleNext]_vars

\* the correspondent of a message, derived and handed to the requests
CorrespondentInit ==
    /\ MailIdle
    /\ NoTasks
    /\ attRun = NoRun
    /\ boxRun = NoRun
    /\ consume = NoRun
    /\ dataRun \in CorrespondentRuns

CorrespondentNext ==
    \/ \E outcome \in GetOrCreateOutcomes : DeriveCorrespondent(outcome)
    \/ QueueWithCorrespondent

CorrespondentSpec == CorrespondentInit /\ [][CorrespondentNext]_vars

(* ------------------------------ properties ----------------------------- *)

\* the chords queued for a message under a rule
ChordsOf(b, r, u) == {i \in DOMAIN b : b[i].rule = r /\ b[i].uid = u}

Recorded(r, u) == ProcessedMailExists(ledger, r, Folder, u)

\* the chords queued by the same _handle_message call as chord i
Siblings(i) == {j \in DOMAIN batches : batches[j].call = batches[i].call}

\* C1: a message that has a ProcessedMail row for the rule, of whichever
\* status, gets no new chord under that rule in any step, also when it still
\* satisfies the rule's criteria and is fetched again.
C1_RecordedNeverRequeued ==
    [][\A r \in Rules, u \in Uids :
          Recorded(r, u) => ChordsOf(batches', r, u) = ChordsOf(batches, r, u)]_vars

\* a fetched message was skipped although its mail action never took place:
\* its row has status FAILED and it still satisfies the rule's criteria
C1_Witness ==
    /\ handled.outcome = "skipped"
    /\ ProcessedMailRow(handled.rule, handled.uid, "FAILED") \in BagToSet(ledger)
    /\ mailbox[handled.uid].present
    /\ ActionCriteria(rules[handled.rule].action, mailbox[handled.uid])
    /\ ChordsOf(batches, handled.rule, handled.uid) # {}

Settled(i) ==
    \/ batches[i].st = "done"
    \/ batches[i].st = "errback" /\ ~batches[i].failed

\* C3: the mail action and the ledger write of a message are not undertaken
\* before every ingestion request extracted from the message by that
\* _handle_message call (the .eml and all its attachments) has ended.
C3_ActionAfterAllRequests ==
    \A i \in DOMAIN batches :
        Settled(i) => \A j \in Siblings(i) : batches[j].pending = 0

\* C4: when an ingestion request of a message failed and its chord has
\* finished, the rule's mail action was carried out on the message and a
\* FAILED row is in the ledger.
C4_FailedBatchStillActs ==
    \A i \in DOMAIN batches :
        (batches[i].st = "done" /\ batches[i].failed)
            => /\ \E j \in ChordsOf(batches, batches[i].rule, batches[i].uid) :
                     batches[j].acted
               /\ ProcessedMailRow(batches[i].rule, batches[i].uid, "FAILED")
                     \in BagToSet(ledger)

\* C5: every message for which a chord was queued under a rule eventually
\* has a ProcessedMail row for that rule; the row stays, and from then on
\* no run queues the message under the rule again.
C5_QueuedEventuallyRecorded ==
    /\ \A r \in Rules, u \in Uids :
          (ChordsOf(batches, r, u) # {}) ~> Recorded(r, u)
    /\ [][\A r \in Rules, u \in Uids :
             Recorded(r, u) =>
                 /\ ProcessedMailExists(ledger', r, Folder, u)
                 /\ Cardinality(ChordsOf(batches', r, u))
                       = Cardinality(ChordsOf(batches, r, u))]_vars

\* an ingestion request of the message failed, the error callback recorded
\* it, and a later iteration of the message loop skipped the message
C5_Witness ==
    \E i \in DOMAIN batches :
        /\ batches[i].st = "done"
        /\ batches[i].failed
        /\ ~batches[i].conflict
        /\ Recorded(batches[i].rule, batches[i].uid)
        /\ handled.outcome = "skipped"
        /\ handled.rule = batches[i].rule
        /\ handled.uid = batches[i].uid

\* the _handle_message calls that queued a chord for a message under a rule
CallsOf(r, u) == {batches[i].call : i \in ChordsOf(batches, r, u)}

\* C6: whatever the interleaving of runs and queued chords, a message is
\* queued for ingestion at most once under a rule and the rule's mail action
\* is applied to it at most once. The chords of one _handle_message call
\* count as one queuing, and their mail actions as one.
C6_AtMostOnce ==
    \A r \in Rules, u \in Uids :
        /\ Cardinality(CallsOf(r, u)) <= 1
        /\ Cardinality({batches[i].call : i \in
              {j \in ChordsOf(batches, r, u) : batches[j].acted}}) <= 1

\* C7: an insert into the ledger that finds its key taken is a no-op; it is
\* never turned into the failure of the task that made it.
C7_ConflictIsNoOp ==
    \A i \in DOMAIN batches : ~batches[i].conflict

\* C8: all ingestion requests extracted from one message by one
\* _handle_message call are queued as exactly one chord, whatever the scope.
C8_OneBatchPerMessage ==
    \A i \in DOMAIN batches : Siblings(i) = {i}

\* C9: a run evaluates the rules in ascending order field, each exactly
\* once when it returns, whether or not the evaluation of a rule raised;
\* chords queued earlier stay queued.
C9_EveryRuleOnceInOrder ==
    /\ [](/\ \A i, j \in DOMAIN evaluated :
                i < j => /\ evaluated[i].rule # evaluated[j].rule
                         /\ rules[evaluated[i].rule].order
                               <= rules[evaluated[j].rule].order
          /\ pc = "return" => {evaluated[i].rule : i \in DOMAIN evaluated} = Rules)
    /\ [][/\ Len(batches') >= Len(batches)
          /\ \A i \in DOMAIN batches :
                /\ batches'[i].call = batches[i].call
                /\ batches'[i].rule = batches[i].rule
                /\ batches'[i].uid = batches[i].uid
                /\ batches'[i].n = batches[i].n]_vars

\* a run returned after the rule of lowest order queued a chord and the
\* evaluation of the next rule raised
C9_Witness ==
    /\ pc = "return"
    /\ Len(evaluated) = Cardinality(Rules)
    /\ evaluated[1].outcome = "ok"
    /\ evaluated[2].outcome = "error"
    /\ ChordsOf(batches, evaluated[1].rule, 1) # {}

\* C10: a message whose handling raised has no chord queued by that call
\* (hence no mail action and no ledger row from it), and the message loop
\* goes on.
C10_RaisingMessageLeavesNothing ==
    handled.outcome = "raised" =>
        \A i \in DOMAIN batches : batches[i].call # handled.call

\* C11: mailbox_login calls login first and calls login_utf8 if and only if
\* login raised UnicodeEncodeError; every other failure of login and every
\* failure of login_utf8 raises MailError with no further attempt. When the
\* login raises, the run ends without evaluating a rule or queuing a chord.
C11_LoginFallback ==
    /\ [](login # NoLogin =>
            /\ login.attempts[1] = "login"
            /\ Len(login.attempts) <= 2
            /\ (Len(login.attempts) = 2
                  <=> login.primary = "UnicodeEncodeError")
            /\ Len(login.attempts) = 2 => login.attempts[2] = "login_utf8"
            /\ (login.raised = "MailError"
                  <=> \/ login.primary = "MailboxLoginError"
                      \/ login.alternate = "MailboxLoginError")
            /\ (pc = "raise" <=> login.raised = "MailError"))
    /\ [][(pc = "raise" \/ pc' = "raise") =>
             /\ pc' \in {"raise", "idle"}
             /\ evaluated' = <<>> /\ ruleQueue' = <<>> /\ messages' = <<>>
             /\ Len(batches') = Len(batches)]_vars

\* login raised UnicodeEncodeError, login_utf8 failed as well, and the run
\* is about to end with MailError
C11_Witness ==
    /\ pc = "raise"
    /\ login.attempts = <<"login", "login_utf8">>
    /\ login.alternate = "MailboxLoginError"
    /\ evaluated = <<>>

\* the claim's condition for an attachment to yield an ingestion request
YieldsRequest(rule, att) ==
    /\ \/ rule.attachment_type = "EVERYTHING"
       \/ att.content_disposition = "attachment"
    /\ \/ rule.filter_attachment_filename = <<>>
       \/ FnmatchCase(Lower(att.filename), Lower(rule.filter_attachment_filename))
    /\ att.supported

\* C12: _process_attachments makes a request for an attachment if and only
\* if its disposition passes, its lower-cased name matches the lower-cased
\* filter (if any) and its mime type is supported; the requests are queued
\* in attachment order and the returned count is their number.
C12_AttachmentFilter ==
    attRun.pc \in {"loop", "returned"} =>
        /\ SeqOfSet({j \in 1..(attRun.i - 1) :
                        YieldsRequest(attRun.rule, attRun.atts[j])})
              = attRun.consume_tasks
        /\ attRun.pc = "returned" =>
              /\ attRun.queued = attRun.consume_tasks
              /\ attRun.returned = Len(attRun.queued)

\* two attachments, the second of an unsupported type, give one request;
\* the first passes a filter written in upper case
C12_Witness ==
    /\ attRun.pc = "returned"
    /\ Len(attRun.atts) = 2
    /\ attRun.atts[1].supported /\ ~attRun.atts[2].supported
    /\ attRun.rule.filter_attachment_filename = <<"*", "B">>
    /\ attRun.atts[1].filename = <<"a", "b">>
    /\ attRun.atts[2].filename = <<"a", "b">>
    /\ attRun.atts[2].content_disposition = "attachment"
    /\ attRun.queued = <<1>>
    /\ attRun.returned = 1

\* the claim's condition for a message to be a candidate of a rule
Candidate(msg, rule) ==
    /\ msg.folder = "INBOX"
    /\ rule.maximum_age > 0 => msg.age_days <= rule.maximum_age
    /\ rule.filter_from # "" => rule.filter_from \in msg.from_
    /\ rule.filter_subject # "" => rule.filter_subject \in msg.subject
    /\ rule.filter_body # "" => rule.filter_body \in msg.text
    /\ rule.action = "MARK_READ" => ~msg.seen
    /\ rule.action = "FLAG" => ~msg.flagged
    /\ (rule.action = "TAG" /\ rule.action_parameter = "processed") =>
          /\ "processed" \notin msg.gmail_labels
          /\ "processed" \notin msg.keywords
    /\ (rule.action = "TAG" /\ rule.action_parameter = "apple:green") =>
          ~msg.flagged

\* C13: the messages fetched for a rule are exactly those that satisfy the
\* age bound (if maximum_age > 0), the from, subject and body filters (each
\* if non-empty) and the pre-filter of the rule's mail action (none for
\* delete and move).
C13_CriteriaConjunction ==
    boxRun.pc \in {"queue", "apply"} =>
        boxRun.fetched =
            {u \in Uids : Candidate(boxRun.before[u], boxRun.rule)}

\* a mark-read rule with an age bound and a subject filter fetched the
\* unseen recent message and left out the old one
C13_Witness ==
    /\ boxRun.pc = "queue"
    /\ boxRun.rule.action = "MARK_READ"
    /\ boxRun.rule.maximum_age = 30
    /\ boxRun.rule.filter_subject = "Claim"
    /\ boxRun.rule.filter_from = ""
    /\ ~boxRun.before[1].seen
    /\ boxRun.fetched = {2}

\* a queued message carries the mark the rule's mail action leaves
Marked(msg, rule) ==
    IF rule.action = "MARK_READ" THEN msg.folder = "INBOX" /\ msg.seen
    ELSE IF rule.action = "FLAG" THEN msg.folder = "INBOX" /\ msg.flagged
    ELSE IF rule.action = "TAG"
    THEN /\ msg.folder = "INBOX"
         /\ IF rule.action_parameter = "apple:green" THEN msg.flagged
            ELSE \/ rule.action_parameter \in msg.keywords
                 \/ rule.action_parameter \in msg.gmail_labels
    ELSE IF rule.action = "MOVE" THEN msg.folder = rule.action_parameter
    ELSE msg.folder = "deleted"

\* C14: once the mail actions of all queued messages have been applied, the
\* messages without a queued chord are unchanged, and the queued ones are
\* seen (mark-read), flagged (flag), tagged (tag) and still in the folder,
\* gone (delete), or in the target folder (move).
C14_OnlyQueuedChanged ==
    (boxRun.pc = "apply" /\ boxRun.applied = boxRun.queued) =>
        \A u \in Uids :
            IF u \in boxRun.queued
            THEN Marked(boxRun.box[u], boxRun.rule)
            ELSE boxRun.box[u] = boxRun.before[u]

\* C15: for mark-read, flag and tag rules, a message the mail action has
\* been applied to no longer satisfies the action's own pre-filter, in the
\* keyword, Gmail label and Apple colour modes of tag alike.
C15_ActionLeavesPrefilter ==
    (boxRun.pc = "apply"
        /\ boxRun.rule.action \in {"MARK_READ", "FLAG", "TAG"}) =>
        \A u \in boxRun.applied :
            \E key \in GetCriteria(boxRun.rule) :
                ~MatchesKey(boxRun.box[u], boxRun.rule, key)

\* the split case: splitting is on, separators were found and
\* separate_pages returned documents
SplitCase ==
    /\ consume.pc # "none"
    /\ consume.enable_barcodes /\ consume.separators /\ consume.documents > 0

\* C16: in the split case the Consumer is never invoked for the original
\* file, and a task that returns returns 'File successfully split'.
C16_SplitNeverParsed ==
    SplitCase =>
        /\ consume.consumer = <<>>
        /\ consume.pc = "done" =>
              consume.result \in {"File successfully split", "raised"}
        /\ consume.pc \in {"start", "scanned", "saving", "done"}

\* the file was split into the largest number of documents and the task
\* returned
C16_Witness ==
    /\ SplitCase
    /\ consume.pc = "done"
    /\ consume.result = "File successfully split"
    /\ Len(consume.saved) = MaxDocuments
    /\ consume.consumer = <<>>

\* C17: in the split path the original file, and the PDF made of a TIFF
\* original, are removed only after every document of the list has been
\* saved; when a save raises the original still exists.
C17_OriginalRemovedLast ==
    consume.pc # "none" =>
        /\ ~consume.original =>
              /\ Len(consume.saved) = consume.documents
              /\ consume.documents > 0
        /\ (consume.scanned /\ consume.mime_type = "image/tiff"
              /\ ~consume.pdf) => Len(consume.saved) = consume.documents
        /\ (consume.result = "raised" /\ consume.consumer = <<>>) =>
              consume.original

\* the first document of a TIFF original was saved, saving the second one
\* raised, and the original and its PDF are still there
C17_Witness ==
    /\ consume.pc = "done"
    /\ consume.result = "raised"
    /\ consume.mime_type = "image/tiff"
    /\ Len(consume.saved) = 1
    /\ consume.documents = 2
    /\ consume.original /\ consume.pdf

\* C18: separators found and an empty list from separate_pages is no
\* error: no file is written or removed, and the task goes on to the
\* Consumer, after the ASN scan when that is enabled.
C18_EmptySplitFallsBack ==
    (/\ consume.pc \in {"asn", "consumer", "done"}
     /\ consume.enable_barcodes /\ consume.separators
     /\ consume.documents = 0) =>
        /\ consume.original
        /\ consume.saved = <<>> /\ consume.split = {}
        /\ consume.pdf = (consume.mime_type = "image/tiff")
        /\ consume.pc \in {"consumer", "done"} =>
              consume.asn_read = consume.enable_asn
        /\ consume.pc = "done" =>
              /\ Len(consume.consumer) = 1
              /\ consume.result \in {"Success", "raised"}

\* separators were found, separate_pages returned nothing, the ASN was
\* read and the Consumer made a document of the whole file
C18_Witness ==
    /\ consume.pc = "done"
    /\ consume.enable_barcodes /\ consume.separators
    /\ consume.documents = 0
    /\ consume.enable_asn /\ consume.asn_read
    /\ consume.result = "Success"

\* C19: the file is scanned for barcodes if and only if splitting or ASN
\* reading is enabled; with both off the task goes straight to the
\* Consumer; splitting and the removal of the original happen only with
\* splitting enabled.
C19_BarcodeStageGating ==
    (consume.pc \notin {"none", "start"}) =>
        /\ consume.scanned <=> (consume.enable_barcodes \/ consume.enable_asn)
        /\ (~consume.enable_barcodes /\ ~consume.enable_asn) =>
              /\ consume.pc \in {"consumer", "done"}
              /\ ~consume.asn_read
        /\ ~consume.enable_barcodes =>
              /\ consume.pc # "saving"
              /\ consume.original
              /\ consume.saved = <<>> /\ consume.split = {}
              /\ consume.result # "File successfully split"

\* only ASN reading is enabled: a file with separators was scanned, not
\* split, and consumed whole
C19_Witness ==
    /\ consume.pc = "done"
    /\ ~consume.enable_barcodes /\ consume.enable_asn
    /\ consume.separators /\ consume.documents > 0
    /\ consume.scanned /\ consume.original
    /\ Len(consume.consumer) = 1

\* C20: the overrides the Consumer receives are the ones given, except
\* that the archive serial number is the one read from a barcode when ASN
\* reading is enabled and found one; an ASN given by the originator is
\* kept when ASN reading finds none.
C20_OverridesOnlyGainAsn ==
    (consume.pc # "none" /\ Len(consume.consumer) = 1) =>
        consume.consumer[1] =
            IF consume.enable_asn /\ consume.asn_barcode # "None"
            THEN [consume.given EXCEPT !.asn = consume.asn_barcode]
            ELSE consume.given

\* C21: consume_file reports success only when the file was split or the
\* Consumer returned a document; an error the Consumer raises leaves the
\* task as it is and no document row is made; a Consumer that returns no
\* document makes the task raise ConsumerError.
C21_ConsumerFailurePropagates ==
    consume.pc = "done" =>
        /\ consume.result = "File successfully split" =>
              /\ SplitCase
              /\ Len(consume.saved) = consume.documents
        /\ consume.result = "Success" =>
              /\ Len(consume.consumer) = 1
              /\ consume.raised = "" /\ consume.rows = 1
        /\ consume.raised # "" =>
              /\ consume.result = "raised"
              /\ consume.error = consume.raised
              /\ consume.rows = 0
        /\ (Len(consume.consumer) = 1 /\ consume.raised = ""
              /\ consume.rows = 0) =>
              /\ consume.result = "raised"
              /\ consume.error =
                    "ConsumerError: Unknown error: Returned document was null"

\* the Consumer raised the parser's error and the task ended with it
C21_Witness ==
    /\ consume.pc = "done"
    /\ Len(consume.consumer) = 1
    /\ consume.raised = "ConsumerError: parser error text"
    /\ consume.error = consume.raised
    /\ consume.rows = 0

\* the files of the target directory that hold document n of the list
FilesOfSpan(n) == {f \in consume.target : f.span = n}

C22_WitnessGone ==
    /\ consume.run = 1
    /\ consume.pc = "done"
    /\ consume.result = "raised"
    /\ ~consume.before.original
    /\ consume.before.target = consume.target
    /\ Cardinality(consume.target) = MaxDocuments

\* the tasks that update a batch of documents in the index
BatchTask(t) == t.kind \in {"index_reindex", "bulk_update_documents"}

\* C23: a bulk_update_documents task makes one index writer, after the
\* post_save signal was sent for every document of its batch, and updates
\* every document of the batch in that writer's block; index_reindex
\* likewise updates all documents in one writer; also when two tasks run
\* at once.
C23_OneWriterPerBatch ==
    workers # NoRun =>
        \A w \in Workers :
            BatchTask(workers[w]) =>
                /\ workers[w].opened <= 1
                /\ workers[w].updated > 0 => workers[w].opened = 1
                /\ workers[w].pc = "updates" =>
                      workers[w].writer \in {"direct", "buffered"}
                /\ (workers[w].kind = "bulk_update_documents"
                      /\ workers[w].opened > 0) =>
                      workers[w].sent = workers[w].documents
                /\ (workers[w].pc = "done"
                      /\ workers[w].result = "returned") =>
                      /\ workers[w].opened = 1
                      /\ workers[w].updated = workers[w].documents

\* two bulk_update_documents tasks of the largest batch are both in their
\* writer's block, one document updated each
C23_Witness ==
    /\ workers # NoRun
    /\ \A w \in Workers :
          /\ workers[w].kind = "bulk_update_documents"
          /\ workers[w].documents = MaxBulk
          /\ workers[w].pc = "updates"
          /\ workers[w].updated = 1
          /\ workers[w].opened = 1

\* the workers whose index writer is open on the index
OpenWriters == {w \in Workers : WriterOpen(workers[w])}

C25_WriterAlwaysReleased ==
    workers # NoRun =>
        \A w \in Workers :
            (workers[w].pc = "done" /\ workers[w].opened > 0) =>
                /\ workers[w].writer # "direct"
                /\ workers[w].failed = "" =>
                      workers[w].writer \in
                          {"committed", "thread", "threadOpen"}
                /\ workers[w].failed # "" =>
                      workers[w].writer \in {"cancelled", "released"}

\* the task is making its index writer or is in the writer's block
AtWriter(t) ==
    \/ t.pc \in {"open", "updates", "commit", "index", "update_index",
                 "commit_index"}
    \/ t.writer \in {"direct", "buffered"}

\* C26: update_document_archive_file takes the media lock only inside its
\* open transaction, and has left both before it makes its index writer;
\* no task is at its index writer with the media lock or an open
\* transaction.
C26_LockOrder ==
    workers # NoRun =>
        \A w \in Workers :
            /\ locks.media = w => workers[w].txn
            /\ workers[w].pc \in {"mkdir", "move_archive", "move_thumbnail",
                                  "unlock"} =>
                  (locks.media = w /\ workers[w].txn)
            /\ AtWriter(workers[w]) =>
                  (~workers[w].txn /\ locks.media # w)

\* one update_document_archive_file is in the block of its index writer,
\* its row committed, while another holds the media lock in its
\* transaction
C26_Witness ==
    /\ workers # NoRun
    /\ \E w, v \in Workers :
          /\ workers[w].kind = "update_document_archive_file"
          /\ workers[w].pc = "update_index"
          /\ workers[w].row = "new"
          /\ ~workers[w].txn
          /\ workers[v].kind = "update_document_archive_file"
          /\ workers[v].pc = "move_archive"
          /\ locks.media = v /\ workers[v].txn

\* C27: in update_document_archive_file the update of the row (archive
\* checksum, content, archive filename) and the move of the archive file
\* are both made while the task holds the media lock.
C27_UpdateAndMoveUnderLock ==
    workers # NoRun =>
        \A w \in Workers :
            /\ workers[w].archive = "in place" => workers[w].move_locked
            /\ (workers[w].pending = "new" \/ workers[w].row = "new") =>
                  workers[w].update_locked

\* the steps made in the block of the media lock
MoveSteps == {"create_source_path_directory", "move archive", "move thumbnail"}

\* C28: when making the target directory or moving the archive file or
\* the thumbnail raises in update_document_archive_file, the row update of
\* the same call is rolled back, the row has the values it had before,
\* the media lock is given back and the index is not updated.
C28_FailedMoveRollsBack ==
    workers # NoRun =>
        \A w \in Workers :
            workers[w].failed \in MoveSteps =>
                /\ workers[w].row = "old"
                /\ workers[w].pending = "none" /\ ~workers[w].txn
                /\ locks.media # w
                /\ workers[w].opened = 0 /\ workers[w].updated = 0
                /\ workers[w].writer = "none"

\* the archive file was moved, the move of the thumbnail raised, and the
\* task has returned with the row as it was
C28_Witness ==
    /\ workers # NoRun
    /\ \E w \in Workers :
          /\ workers[w].kind = "update_document_archive_file"
          /\ workers[w].pc = "done"
          /\ workers[w].failed = "move thumbnail"
          /\ workers[w].archive = "in place"
          /\ workers[w].row = "old"
          /\ workers[w].updated = 0

\* the index update of update_document_archive_file raised, in
\* index.update_document or when the writer committed
IndexFailed(t) ==
    /\ t.kind = "update_document_archive_file"
    /\ t.failed \in {"update_document", "commit"}

\* C29: when the index update of update_document_archive_file fails, the
\* transaction has committed and the files are moved: the failure is
\* logged, the row keeps the new archive checksum, content and archive
\* filename, the files stay in place, and the task returns without
\* raising.
C29_IndexFailureKeepsRow ==
    workers # NoRun =>
        \A w \in Workers :
            IndexFailed(workers[w]) =>
                /\ workers[w].logged
                /\ workers[w].row = "new"
                /\ workers[w].archive = "in place"
                /\ workers[w].thumbnail = "in place"
                /\ workers[w].result # "raised"
                /\ workers[w].pc \in {"cleanup", "done"}
                /\ workers[w].pc = "done" => workers[w].result = "returned"

\* index.update_document raised after the row was committed, and the task
\* has returned
C29_Witness ==
    /\ workers # NoRun
    /\ \E w \in Workers :
          /\ IndexFailed(workers[w])
          /\ workers[w].failed = "update_document"
          /\ workers[w].pc = "done"
          /\ workers[w].result = "returned"
          /\ workers[w].row = "new"
          /\ workers[w].logged

\* C30: an update_document_archive_file task that made a parser calls
\* parser.cleanup() exactly once, as the last thing before it returns, on
\* the path without error and after an error of any step; a task that
\* made no parser calls it never.
C30_CleanupExactlyOnce ==
    workers # NoRun =>
        \A w \in Workers :
            workers[w].kind = "update_document_archive_file" =>
                /\ workers[w].cleanup <= 1
                /\ workers[w].cleanup = 1 =>
                      (workers[w].parser /\ workers[w].pc = "done")
                /\ (workers[w].pc = "done" /\ workers[w].parser) =>
                      workers[w].cleanup = 1

\* the row update raised in the transaction; the error was logged, the
\* parser cleaned up once and the task has returned
C30_Witness ==
    /\ workers # NoRun
    /\ \E w \in Workers :
          /\ workers[w].kind = "update_document_archive_file"
          /\ workers[w].pc = "done"
          /\ workers[w].failed = "update"
          /\ workers[w].parser
          /\ workers[w].cleanup = 1

\* C31: rebuilding a serialized descriptor gives back the descriptor that
\* was serialized, for overrides and for documents alike; overrides rebuilt
\* from None have every field unset; and a field that was present but empty
\* is present and empty after the round trip, never unset.
C31_RoundTrip ==
    dataRun.pc = "rebuilt" =>
        /\ dataRun.kind = "document" => dataRun.rebuilt = dataRun.o
        /\ (dataRun.kind = "overrides" /\ dataRun.data # <<>>) =>
              dataRun.rebuilt = dataRun.o
        /\ (dataRun.kind = "overrides" /\ dataRun.data = <<>>) =>
              \A f \in DOMAIN dataRun.rebuilt : dataRun.rebuilt[f] = <<>>

\* overrides with an empty filename, an empty tag list and asn 0 rebuilt
C31_Witness ==
    /\ dataRun.pc = "rebuilt"
    /\ dataRun.kind = "overrides"
    /\ dataRun.o.filename = <<"">>
    /\ dataRun.o.tag_ids = << <<>> >>
    /\ dataRun.o.asn = <<0>>
    /\ dataRun.o.created # <<>>
    /\ dataRun.rebuilt.asn = <<0>>

\* C32: a constructed document has an absolute path and a mime type, so
\* its serialized form has both; the file is inspected at most once, at the
\* first construction; the rebuilt descriptor has the serialized mime type.
C32_ResolvedOnce ==
    (dataRun.pc \in {"constructed", "serialized", "rebuilt"}
        /\ dataRun.kind = "document") =>
            /\ dataRun.o.original_file.anchor = "/"
            /\ dataRun.o.mime_type # <<>>
            /\ dataRun.inspected = Inspections(dataRun.args)
            /\ dataRun.inspected <= 1
            /\ dataRun.pc # "constructed" =>
                  /\ dataRun.data.original_file[1] = "/"
                  /\ dataRun.data.mime_type # <<>>
            /\ dataRun.pc = "rebuilt" =>
                  /\ dataRun.rebuilt.mime_type = dataRun.data.mime_type
                  /\ dataRun.rebuilt.original_file.anchor = "/"

\* a document built from a relative path without a mime type, rebuilt after
\* the file changed its type
C32_Witness ==
    /\ dataRun.pc = "rebuilt"
    /\ dataRun.kind = "document"
    /\ dataRun.args.original_file.anchor = ""
    /\ dataRun.args.mime_type = <<>>
    /\ dataRun.inspected = 1
    /\ dataRun.rebuilt.mime_type # <<dataRun.file>>

\* the parameter begins with "apple:", and the colour that follows it
ApplePrefix(parameter) ==
    /\ Len(parameter) >= 2
    /\ LowerWord(parameter[1]) = "apple"
    /\ parameter[2] = ":"

PrefixColor(parameter) ==
    IF Len(parameter) = 3 THEN LowerWord(parameter[3])
    ELSE IF Len(parameter) = 4 /\ parameter[3] = " "
    THEN LowerWord(parameter[4])
    ELSE ""

\* C33: a TAG action is in colour mode exactly when its parameter begins
\* with "apple:" and in keyword mode otherwise, with exactly one of colour
\* and keyword set; building it raises MailError exactly when the prefix is
\* followed by an unknown colour; get_criteria answers by the mode, and
\* post_consume on any host sets the flags of the colour in colour mode and
\* the keyword (the label on a Gmail host) in keyword mode.
C33_TagModes ==
    (dataRun.pc # "none" /\ dataRun.kind = "tag"
        /\ dataRun.pc # "parameter") =>
        LET parameter == dataRun.parameter
            action == dataRun.action
            colour == ApplePrefix(parameter)
            before == dataRun.before
        IN  /\ action.raised =
                  (IF colour /\ PrefixColor(parameter) \notin AppleMailTagColors
                   THEN "MailError" ELSE "none")
            /\ action.raised = "none" =>
                  /\ (action.color # <<>>) # (action.keyword # <<>>)
                  /\ (action.color # <<>>) = colour
            /\ dataRun.pc \in {"criteria", "applied"} =>
                  dataRun.criteria =
                      [raised |-> "none",
                       keys |-> IF colour THEN {"flagged"}
                                ELSE {"not_gmail_label", "no_keyword"}]
            /\ dataRun.pc = "applied" =>
                  dataRun.applied =
                      [raised |-> FALSE,
                       msg |->
                          IF colour
                          THEN [before EXCEPT
                                  !.bits = AppleMailFlagBits(
                                               PrefixColor(parameter)),
                                  !.flagged = TRUE]
                          ELSE IF dataRun.gmail
                          THEN [before EXCEPT
                                  !.gmail_labels = @ \cup {parameter}]
                          ELSE [before EXCEPT
                                  !.keywords = @ \cup {parameter}]]

\* the rules _handle_mail_rule has returned from or raised out of
RulesOver ==
    {r \in Rules : \A i \in DOMAIN dataRun.queue : dataRun.queue[i] # r}

\* C34: a rule whose folder cannot be selected lists the folders exactly
\* once, raises MailError, fetches nothing and handles no message, whether
\* the listing succeeded or not; the other rules of the account are run as
\* if it had not failed.
C34_MissingFolder ==
    (dataRun.pc # "none" /\ dataRun.kind = "rules") =>
        /\ \A r \in Rules : dataRun.listings[r] <= 1
        /\ \A r \in RulesOver :
              IF dataRun.exists[r]
              THEN /\ dataRun.listings[r] = 0
                   /\ dataRun.fetches[r] = 1
                   /\ dataRun.raised[r] = "none" =>
                         dataRun.handled[r] = dataRun.size[r]
              ELSE /\ dataRun.listings[r] = 1
                   /\ dataRun.raised[r] = "MailError"
                   /\ dataRun.fetches[r] = 0
                   /\ dataRun.handled[r] = 0

\* the first rule's folder is missing and its listing raised; the second
\* rule fetched its folder and handled its messages
C34_Witness ==
    /\ dataRun.pc = "done"
    /\ dataRun.kind = "rules"
    /\ ~dataRun.exists[1]
    /\ dataRun.logged[1] = 3
    /\ dataRun.raised[1] = "MailError"
    /\ dataRun.exists[2]
    /\ dataRun.handled[2] = MaxAttachments

\* the rule reads attachments only
AttachmentsOnly(r) == rules[r].consumption_scope = "ATTACHMENTS_ONLY"

\* C35: under a rule that reads attachments only, a message has a chord if
\* and only if it has an attachment: every chord of such a rule belongs to a
\* message with attachments and carries one request per consumed attachment;
\* a handled message without attachment queued nothing and has no ledger
\* row; a handled message with attachments queued exactly one chord, and a
\* chord without requests goes straight to the mail action, whose end
\* leaves a ledger row.
C35_AttachmentsOnlyBatch ==
    /\ \A i \in DOMAIN batches :
          AttachmentsOnly(batches[i].rule) =>
              /\ attachments[batches[i].uid] # <<>>
              /\ batches[i].kind = "att"
              /\ batches[i].n = CountTrue(attachments[batches[i].uid])
              /\ batches[i].n = 0 =>
                    /\ batches[i].st # "header"
                    /\ ~batches[i].failed
                    /\ batches[i].st = "done" =>
                          Recorded(batches[i].rule, batches[i].uid)
    /\ \A r \in Rules, u \in Uids :
          (AttachmentsOnly(r) /\ attachments[u] = <<>>) => ~Recorded(r, u)
    /\ (handled.outcome = "returned" /\ AttachmentsOnly(handled.rule)) =>
          Cardinality({i \in DOMAIN batches : batches[i].call = handled.call})
              = IF attachments[handled.uid] = <<>> THEN 0 ELSE 1

\* the chord of a message whose only attachment was not consumed ran its
\* mail action and left its row
C35_Witness ==
    \E i \in DOMAIN batches :
        /\ AttachmentsOnly(batches[i].rule)
        /\ batches[i].n = 0
        /\ batches[i].st = "done"
        /\ batches[i].acted
        /\ Recorded(batches[i].rule, batches[i].uid)

\* the rows of a status the ledger holds for a message under a rule
RowsOf(l, r, u, status) == CopiesIn(ProcessedMailRow(r, u, status), l)

\* C36: a SUCCESS row of the ledger belongs to a message on which a chord of
\* the rule carried out post_consume; and an apply_mail_action whose login,
\* folder selection or post_consume raised adds no SUCCESS row, inserts the
\* FAILED row (unless the key is taken) and ends by the exception, so that
\* the error callback is due.
C36_SuccessOnlyAfterAction ==
    /\ [](\A r \in Rules, u \in Uids :
            RowsOf(ledger, r, u, "SUCCESS") > 0 =>
                \E i \in ChordsOf(batches, r, u) : batches[i].acted)
    /\ [][\A k \in DOMAIN batches :
            (batches[k].st = "body" /\ batches'[k].st # "body"
                /\ ~batches'[k].acted) =>
                LET r == batches[k].rule
                    u == batches[k].uid
                IN  /\ RowsOf(ledger', r, u, "SUCCESS")
                          = RowsOf(ledger, r, u, "SUCCESS")
                    /\ RowsOf(ledger', r, u, "FAILED")
                          = IF Recorded(r, u)
                            THEN RowsOf(ledger, r, u, "FAILED")
                            ELSE RowsOf(ledger, r, u, "FAILED") + 1
                    /\ batches'[k].st = "errback"]_vars

\* a chord whose mail action raised left a FAILED row and no SUCCESS row
C36_Witness ==
    \E i \in DOMAIN batches :
        /\ batches[i].st = "done"
        /\ ~batches[i].acted
        /\ ~batches[i].failed
        /\ RowsOf(ledger, batches[i].rule, batches[i].uid, "FAILED") = 1
        /\ RowsOf(ledger, batches[i].rule, batches[i].uid, "SUCCESS") = 0

\* C37: when update_document_archive_file has ended, the archive file is at
\* the archive path of the document exactly when the row holds the archive
\* filename and checksum this call wrote.
C37_ArchiveMatchesRow ==
    workers # NoRun =>
        \A w \in Workers :
            (workers[w].kind = "update_document_archive_file"
                /\ workers[w].pc = "done") =>
                (workers[w].archive = "in place" <=> workers[w].row = "new")

\* C39: an update_document_archive_file for a document whose mime type has
\* no parser logs the error and returns without raising; the row keeps its
\* archive checksum and filename, no file is moved, no index writer is
\* opened, no lock is taken and no parser is made.
C39_NoParserChangesNothing ==
    workers # NoRun =>
        \A w \in Workers :
            (workers[w].kind = "update_document_archive_file"
                /\ ~workers[w].parser_class) =>
                /\ workers[w].pc \in {"start", "done"}
                /\ workers[w].pc = "done" =>
                      /\ workers[w].result = "returned"
                      /\ workers[w].logged
                /\ workers[w].row = "old" /\ workers[w].pending = "none"
                /\ ~workers[w].txn
                /\ workers[w].archive = "scratch"
                /\ workers[w].thumbnail = "scratch"
                /\ workers[w].opened = 0 /\ workers[w].updated = 0
                /\ workers[w].writer = "none"
                /\ ~workers[w].parser /\ workers[w].cleanup = 0
                /\ workers[w].failed = ""
                /\ locks.media # w /\ locks.writer # w

\* a task without parser has returned while the task of the other worker
\* moved its archive file into place and committed its row
C39_Witness ==
    /\ workers # NoRun
    /\ \E w, v \in Workers :
          /\ workers[w].kind = "update_document_archive_file"
          /\ ~workers[w].parser_class
          /\ workers[w].pc = "done"
          /\ workers[w].logged
          /\ workers[v].kind = "update_document_archive_file"
          /\ workers[v].row = "new"

\* the rule derives the correspondent from the sender by get_or_create
FromSender(rule) ==
    rule.assign_correspondent_from \in {"FROM_EMAIL", "FROM_NAME"}

\* C40: when get_or_create raises DatabaseError while the correspondent of
\* a message is derived, the error is logged, no exception leaves
\* _get_correspondent, and the message goes on to be queued: every request
\* of the message carries an unset correspondent override.
C40_DatabaseErrorStillConsumes ==
    (dataRun.pc # "none" /\ dataRun.kind = "correspondent"
        /\ dataRun.pc # "handle" /\ FromSender(dataRun.rule)
        /\ dataRun.outcome = "DatabaseError") =>
        /\ dataRun.pc \in {"derived", "queued"}
        /\ dataRun.derived =
              [raised |-> "none", correspondent |-> <<>>, logged |-> TRUE]
        /\ dataRun.pc = "queued" =>
              /\ Len(dataRun.requests) =
                    (IF ScopeHasEml(dataRun.rule.consumption_scope)
                     THEN 1 ELSE 0)
                    + (IF ScopeHasAttachments(dataRun.rule.consumption_scope)
                          /\ dataRun.supported
                       THEN 1 ELSE 0)
              /\ \A i \in DOMAIN dataRun.requests :
                    dataRun.requests[i].correspondent_id = <<>>

\* a message whose sender's name could not be looked up was queued with
\* its .eml and its attachment
C40_Witness ==
    /\ dataRun.pc = "queued"
    /\ dataRun.kind = "correspondent"
    /\ dataRun.rule.assign_correspondent_from = "FROM_NAME"
    /\ dataRun.message.from_values = <<"Amazon">>
    /\ dataRun.outcome = "DatabaseError"
    /\ Len(dataRun.requests) = 2

====
